---- MODULE Spec2Model ----
(***************************************************************************)
(* Authorization core of the clonememoria backend: the token service       *)
(* (issue / rotate / revoke refresh tokens), the workspace RBAC check and  *)
(* the Redis-backed rate limiter with its middleware.                      *)
(*                                                                         *)
(* Time is the value of datetime.utcnow() in whole seconds.  A JWT is the  *)
(* record of its claims: HS256 over a fixed secret is a deterministic      *)
(* function of the claims, and the exp claim is encoded in whole seconds.  *)
(* The relational store is a set of tables holding the rows the code       *)
(* inserts; every store call of a handler is one step, so handlers of      *)
(* different worker processes interleave between their store calls.        *)
(***************************************************************************)
EXTENDS Integers, Sequences, FiniteSets, TLC

VARIABLES
    now,              \* datetime.utcnow(), in seconds
    ticks,            \* number of clock advances so far
    utc_offset,       \* UTC offset of the process's local time zone, in seconds
    timestamps_aware, \* the store returns expires_at with a UTC offset (timestamptz)
    log_level,        \* settings.LOG_LEVEL, the level setup_logging gives the root logger
    redis_client,     \* core/redis_client.py, _redis_client: "None" or the client "Redis"
    middleware_stack, \* app.middleware_stack: "None" until it is built, then "built"
    resetting,        \* the reset_user_rate_limits call in progress: user and keys found
    record_factory,   \* the log record factory of the process sets request_id on its records
    refresh_tokens,   \* table refresh_tokens: sequence of rows
    token_blacklist,  \* table token_blacklist: sequence of rows
    held,             \* refresh tokens handed out to clients
    call,             \* per worker: the token-service call it is running
    rotated,          \* tokens for which a refresh_access_token call succeeded
    revoked_ok,       \* tokens for which revoke_token returned True
    calls,            \* number of token-service calls started so far
    space_members,    \* table space_members: (user, space) -> the rows of that pair
    is_admin,         \* users.is_platform_admin
    rbac,             \* the RBAC call in progress, or the outcome of the last one
    member_changes,   \* number of rows added to or deleted from space_members so far
    redis,            \* counter store: key -> [val, exp] or NoKey
    rl_enabled,       \* RedisRateLimitService.enabled (client is not None)
    rate_limit_configs, \* table rate_limit_configs: sequence of rows
    reqlog,           \* per (user, normalized endpoint): history of its requests
    last,             \* the request the rate-limit middleware has just dispatched
    inflight,         \* per server process: the request it holds between check and increment
    request           \* the requests travelling through the application's middleware stack

tokenVars == <<refresh_tokens, token_blacklist, held, call, rotated, revoked_ok, calls>>
rbacVars  == <<space_members, is_admin, rbac, member_changes>>
rateVars  == <<redis, rl_enabled, rate_limit_configs, reqlog, last, inflight, request>>
hostVars  == <<utc_offset, timestamps_aware, log_level, redis_client, middleware_stack,
               resetting>>
envVars   == <<hostVars, record_factory>>
vars      == <<now, ticks, envVars, tokenVars, rbacVars, rateVars>>

(***************************************************************************)
(* Bounds of the model                                                     *)
(***************************************************************************)
MaxCalls == 4    \* token-service calls started (login, refresh, revoke)
MaxTicks == 1    \* clock advances of the token service's runs

Users == {"u1", "u2"}
Procs == {"p1", "p2"}

NULL == 0 - 1        \* SQL NULL in a timestamp column

(***************************************************************************)
(* core/security.py                                                        *)
(***************************************************************************)
REFRESH_TOKEN_EXPIRE_DAYS == 30
RefreshSeconds == REFRESH_TOKEN_EXPIRE_DAYS * 86400

\* create_refresh_token: claims sub, exp = utcnow() + 30 days, type = refresh.
create_refresh_token(sub, t) ==
    [sub |-> sub, exp |-> t + RefreshSeconds, typ |-> "refresh"]

\* hash_token: SHA-256 hex digest of the raw token (one digest per raw value).
hash_token(token) == <<"sha256", token.sub, token.exp, token.typ>>

\* jose's expiry test inside jwt.decode: the token is rejected when exp < now.
jwt_decode_ok(token, t) == ~(token.exp < t)

\* decode_refresh_token: TRUE when it returns the payload, FALSE when it raises 401.
decode_refresh_token_ok(token, t) ==
    /\ jwt_decode_ok(token, t)
    /\ token.typ = "refresh"
    /\ token.sub \in Users

\* settings.ACCESS_TOKEN_EXPIRE_MINUTES (core/config.py).
ACCESS_TOKEN_EXPIRE_MINUTES == 60 * 24 * 7

\* create_access_token: claims sub and exp (no type claim).
create_access_token(sub, t) ==
    [sub |-> sub, exp |-> t + ACCESS_TOKEN_EXPIRE_MINUTES * 60, typ |-> "none"]

(***************************************************************************)
(* The store's query builder and stored procedures                         *)
(***************************************************************************)
\* .eq('token_hash', h).is_('revoked_at', 'null'): indexes of the matching rows.
select_active(rows, h) ==
    {i \in 1..Len(rows) : rows[i].token_hash = h /\ rows[i].revoked_at = NULL}

\* .update({'revoked_at': t}).eq('token_hash', h): every row with that hash.
update_revoked_by_hash(rows, h, t) ==
    [i \in 1..Len(rows) |->
        IF rows[i].token_hash = h THEN [rows[i] EXCEPT !.revoked_at = t] ELSE rows[i]]

\* Stored procedure is_token_blacklisted(p_token_hash): a matching entry that has
\* not expired, expiry being tested as everywhere else in the service
\* (expired when expires_at < now).
rpc_is_token_blacklisted(bl, h, t) ==
    \E i \in 1..Len(bl) : bl[i].token_hash = h /\ ~(bl[i].expires_at < t)

(***************************************************************************)
(* services/token_service.py                                               *)
(***************************************************************************)
\* The row create_token_pair inserts for a freshly minted refresh token.
refresh_token_data(user_id, t) ==
    [user_id    |-> user_id,
     token_hash |-> hash_token(create_refresh_token(user_id, t)),
     expires_at |-> t + RefreshSeconds,
     revoked_at |-> NULL]

\* TokenService.is_token_blacklisted: the stored procedure's answer.
is_token_blacklisted(bl, h, t) == rpc_is_token_blacklisted(bl, h, t)

\* The time zones the service's process may run in, as offsets from UTC.
UtcOffsets == {0 - 18000, 0, 32400}

\* datetime.fromtimestamp(ts): the naive local time of the POSIX timestamp ts,
\* which read on the scale of utcnow() is ts shifted by the zone's UTC offset.
fromtimestamp(ts, offset) == ts + offset

\* The row revoke_token inserts into token_blacklist; its expires_at is the
\* isoformat of datetime.fromtimestamp(exp), a naive local time.
blacklist_row(token, reason, offset) ==
    [token_hash |-> hash_token(token), user_id |-> token.sub,
     expires_at |-> fromtimestamp(token.exp, offset), reason |-> reason]

\* The expiry test of refresh_access_token on the stored row, both sides naive.
row_expired(row, t) == row.expires_at < t

\* Line 88 on the row the lookup returned: "raises" when the store returned
\* expires_at with a UTC offset (an aware datetime cannot be compared with the
\* naive utcnow(): TypeError), else whether the row has expired.
expiry_test(row, t, aware) ==
    IF aware THEN "raises" ELSE IF row_expired(row, t) THEN "expired" ELSE "valid"

NoToken == [sub |-> "", exp |-> 0, typ |-> "none"]

\* The expires_in field of the TokenPair create_token_pair returns, in seconds.
expires_in == 1800

\* create_token_pair's return value: both tokens minted at time t and expires_in.
create_token_pair(user_id, t) ==
    [access_token |-> create_access_token(user_id, t),
     refresh_token |-> create_refresh_token(user_id, t),
     expires_in |-> expires_in]

NoPair == [access_token |-> NoToken, refresh_token |-> NoToken, expires_in |-> 0]

Idle == [op |-> "none", pc |-> "idle", tok |-> NoToken, new |-> NoToken, res |-> "none",
         minted |-> FALSE, after_use |-> FALSE, bl_at_start |-> FALSE,
         active_at_start |-> FALSE, after_revoke |-> FALSE, conc |-> {},
         caller |-> "None", n |-> 0, seq |-> 0, bl_failed |-> FALSE,
         rotate_failed |-> FALSE, pair |-> NoPair, at |-> 0]

\* Workers that are inside refresh_access_token with the token tk.
InFlightRefresh(tk) ==
    {q \in Procs : call[q].op = "refresh" /\ call[q].pc # "idle" /\ call[q].tok = tk}

\* A token that was issued before the model's first state and whose row is gone.
PreIssued == [sub |-> "u1", exp |-> RefreshSeconds - 1, typ |-> "refresh"]

\* A worker that starts a new call is no longer a concurrent peer of the others.
Forget(p) == [q \in Procs |-> [call[q] EXCEPT !.conc = @ \ {p}]]

\* create_token_pair as called by the login and register routes: mint, insert, return.
Login(p, u) ==
    /\ call[p].pc = "idle"
    /\ calls < MaxCalls
    /\ calls' = calls + 1
    /\ refresh_tokens' = Append(refresh_tokens, refresh_token_data(u, now))
    /\ held' = held \cup {create_refresh_token(u, now)}
    /\ call' = [Forget(p) EXCEPT ![p] =
                  [Idle EXCEPT !.op = "login", !.res = "ok", !.minted = TRUE,
                               !.tok = create_refresh_token(u, now),
                               !.pair = create_token_pair(u, now), !.at = now]]
    /\ UNCHANGED <<now, ticks, envVars, token_blacklist, rotated, revoked_ok, rbacVars, rateVars>>

\* refresh_access_token, lines 68-75: decode, hash, blacklist lookup.
RefreshStart(p, tk) ==
    /\ call[p].pc = "idle"
    /\ calls < MaxCalls
    /\ calls' = calls + 1
    /\ LET h  == hash_token(tk)
           ok == decode_refresh_token_ok(tk, now) /\ ~is_token_blacklisted(token_blacklist, h, now)
           me == [Idle EXCEPT
                    !.op = "refresh", !.tok = tk,
                    !.pc = IF ok THEN "r_lookup" ELSE "idle",
                    !.res = IF ok THEN "none" ELSE "fail",
                    !.after_use = tk \in rotated,
                    !.after_revoke = tk \in revoked_ok,
                    !.bl_at_start = \E i \in 1..Len(token_blacklist) :
                                        token_blacklist[i].token_hash = h,
                    !.active_at_start = \E i \in select_active(refresh_tokens, h) :
                                        ~row_expired(refresh_tokens[i], now),
                    !.conc = InFlightRefresh(tk) \ {p}]
       IN call' = [q \in Procs |->
                     IF q = p THEN me
                     ELSE IF q \in InFlightRefresh(tk)
                          THEN [call[q] EXCEPT !.conc = @ \cup {p}]
                          ELSE [call[q] EXCEPT !.conc = @ \ {p}]]
    /\ UNCHANGED <<now, ticks, envVars, refresh_tokens, token_blacklist, held, rotated, revoked_ok,
                   rbacVars, rateVars>>

\* refresh_access_token, lines 77-90: the row lookup (maybeSingle: one row, none,
\* or an error when several rows match) and the expiry test on the row.
RefreshLookup(p) ==
    /\ call[p].pc = "r_lookup"
    /\ LET found == select_active(refresh_tokens, hash_token(call[p].tok))
           ok    == /\ Cardinality(found) = 1
                    /\ \A i \in found :
                          expiry_test(refresh_tokens[i], now, timestamps_aware) = "valid"
       IN call' = [call EXCEPT ![p].pc = IF ok THEN "r_issue" ELSE "idle",
                               ![p].res = IF ok THEN "none" ELSE "fail"]
    /\ UNCHANGED <<now, ticks, envVars, calls, refresh_tokens, token_blacklist, held, rotated, revoked_ok,
                   rbacVars, rateVars>>

\* refresh_access_token, lines 92-96: create_token_pair for the token's subject.
RefreshIssue(p) ==
    /\ call[p].pc = "r_issue"
    /\ refresh_tokens' = Append(refresh_tokens, refresh_token_data(call[p].tok.sub, now))
    /\ call' = [call EXCEPT ![p].pc = "r_rotate", ![p].minted = TRUE,
                            ![p].new = create_refresh_token(call[p].tok.sub, now),
                            ![p].pair = create_token_pair(call[p].tok.sub, now),
                            ![p].at = now]
    /\ UNCHANGED <<now, ticks, envVars, calls, token_blacklist, held, rotated, revoked_ok, rbacVars, rateVars>>

\* refresh_access_token, lines 98-108: mark the presented token's rows revoked, return.
RefreshRotate(p) ==
    /\ call[p].pc = "r_rotate"
    /\ refresh_tokens' = update_revoked_by_hash(refresh_tokens, hash_token(call[p].tok), now)
    /\ held' = held \cup {call[p].new}
    /\ rotated' = rotated \cup {call[p].tok}
    /\ call' = [call EXCEPT ![p].pc = "idle", ![p].res = "ok"]
    /\ UNCHANGED <<now, ticks, envVars, calls, token_blacklist, revoked_ok, rbacVars, rateVars>>

\* revoke_token, lines 116-126: hash, decode, insert the blacklist row.
RevokeStart(p, tk) ==
    /\ call[p].pc = "idle"
    /\ calls < MaxCalls
    /\ calls' = calls + 1
    /\ IF decode_refresh_token_ok(tk, now)
       THEN /\ token_blacklist' = Append(token_blacklist, blacklist_row(tk, "manual_revoke", utc_offset))
            /\ call' = [Forget(p) EXCEPT ![p] =
                          [Idle EXCEPT !.op = "revoke", !.tok = tk, !.pc = "v_update"]]
       ELSE /\ token_blacklist' = token_blacklist
            /\ call' = [Forget(p) EXCEPT ![p] =
                          [Idle EXCEPT !.op = "revoke", !.tok = tk, !.res = "fail"]]
    /\ UNCHANGED <<now, ticks, envVars, refresh_tokens, held, rotated, revoked_ok, rbacVars, rateVars>>

\* revoke_token, lines 128-134: mark the token's rows revoked, return True.
RevokeUpdate(p) ==
    /\ call[p].pc = "v_update"
    /\ refresh_tokens' = update_revoked_by_hash(refresh_tokens, hash_token(call[p].tok), now)
    /\ revoked_ok' = revoked_ok \cup {call[p].tok}
    /\ call' = [call EXCEPT ![p].pc = "idle", ![p].res = "ok"]
    /\ UNCHANGED <<now, ticks, envVars, calls, token_blacklist, held, rotated, rbacVars, rateVars>>

\* revoke_token, lines 128-138, when the update of the rows raises in the store:
\* the blacklist row of lines 121-126 stays, the rows are untouched and the
\* handler returns False.
RevokeUpdateFails(p) ==
    /\ call[p].pc = "v_update"
    /\ call' = [call EXCEPT ![p].pc = "idle", ![p].res = "fail"]
    /\ UNCHANGED <<now, ticks, envVars, calls, refresh_tokens, token_blacklist, held, rotated,
                   revoked_ok, rbacVars, rateVars>>

\* revoke_token, lines 116-126 and 136-138, when the insert of the blacklist row
\* raises in the store: nothing is written and the handler returns False.
RevokeStartInsertFails(p, tk) ==
    /\ call[p].pc = "idle"
    /\ calls < MaxCalls
    /\ calls' = calls + 1
    /\ call' = [Forget(p) EXCEPT ![p] =
                  [Idle EXCEPT !.op = "revoke", !.tok = tk, !.res = "fail"]]
    /\ UNCHANGED <<now, ticks, envVars, refresh_tokens, token_blacklist, held, rotated,
                   revoked_ok, rbacVars, rateVars>>

\* TokenService.is_token_blacklisted with its exception handler: when the stored
\* procedure call raises (rpc_fails), the handler answers False.
is_token_blacklisted_or_error(bl, h, t, rpc_fails) ==
    IF rpc_fails THEN FALSE ELSE is_token_blacklisted(bl, h, t)

\* refresh_access_token, lines 68-75, when the blacklist lookup raises in the store.
RefreshStartBlacklistDown(p, tk) ==
    /\ call[p].pc = "idle"
    /\ calls < MaxCalls
    /\ calls' = calls + 1
    /\ LET h  == hash_token(tk)
           ok == /\ decode_refresh_token_ok(tk, now)
                 /\ ~is_token_blacklisted_or_error(token_blacklist, h, now, TRUE)
           me == [Idle EXCEPT
                    !.op = "refresh", !.tok = tk,
                    !.pc = IF ok THEN "r_lookup" ELSE "idle",
                    !.res = IF ok THEN "none" ELSE "fail",
                    !.after_use = tk \in rotated,
                    !.after_revoke = tk \in revoked_ok,
                    !.bl_at_start = \E i \in 1..Len(token_blacklist) :
                                        token_blacklist[i].token_hash = h,
                    !.active_at_start = \E i \in select_active(refresh_tokens, h) :
                                        ~row_expired(refresh_tokens[i], now),
                    !.conc = InFlightRefresh(tk) \ {p},
                    !.bl_failed = TRUE,
                    !.seq = calls + 1]
       IN call' = [q \in Procs |->
                     IF q = p THEN me
                     ELSE IF q \in InFlightRefresh(tk)
                          THEN [call[q] EXCEPT !.conc = @ \cup {p}]
                          ELSE [call[q] EXCEPT !.conc = @ \ {p}]]
    /\ UNCHANGED <<now, ticks, envVars, refresh_tokens, token_blacklist, held, rotated, revoked_ok,
                   rbacVars, rateVars>>

\* refresh_access_token, lines 98-112, when the update of the old row raises in
\* the store: the handler logs and re-raises, the new pair is not returned.
RefreshRotateFails(p) ==
    /\ call[p].pc = "r_rotate"
    /\ call' = [call EXCEPT ![p].pc = "idle", ![p].res = "fail", ![p].rotate_failed = TRUE]
    /\ UNCHANGED <<now, ticks, envVars, calls, refresh_tokens, token_blacklist, held, rotated,
                   revoked_ok, rbacVars, rateVars>>

\* The guards of refresh_access_token, lines 67-90, on the token tk: TRUE when a
\* call presenting tk now would get as far as create_token_pair.
refresh_guards_pass(rows, bl, tk, t, aware) ==
    LET found == select_active(rows, hash_token(tk))
    IN /\ decode_refresh_token_ok(tk, t)
       /\ ~is_token_blacklisted(bl, hash_token(tk), t)
       /\ Cardinality(found) = 1
       /\ \A i \in found : expiry_test(rows[i], t, aware) = "valid"

\* .eq('user_id', u).is_('revoked_at', 'null'): indexes of the user's active rows.
active_of_user(rows, u) ==
    {i \in 1..Len(rows) : rows[i].user_id = u /\ rows[i].revoked_at = NULL}

\* An update that lacks the user filter and reaches every active row.
update_revoked_by_user_all(rows, u, t) ==
    [i \in 1..Len(rows) |->
        IF rows[i].revoked_at = NULL THEN [rows[i] EXCEPT !.revoked_at = t] ELSE rows[i]]

\* .update({'revoked_at': t}).eq('user_id', u).is_('revoked_at', 'null')
update_revoked_by_user(rows, u, t) ==
    [i \in 1..Len(rows) |->
        IF i \in active_of_user(rows, u) THEN [rows[i] EXCEPT !.revoked_at = t] ELSE rows[i]]

\* revoke_all_user_tokens as called by the logout route for the current user u:
\* one update, whose returned rows are counted.
RevokeAll(p, u) ==
    /\ call[p].pc = "idle"
    /\ calls < MaxCalls
    /\ calls' = calls + 1
    /\ refresh_tokens' = update_revoked_by_user(refresh_tokens, u, now)
    /\ call' = [Forget(p) EXCEPT ![p] =
                  [Idle EXCEPT !.op = "logout", !.caller = u, !.res = "ok",
                               !.conc = {q \in Procs \ {p} : call[q].pc # "idle"},
                               !.n = Cardinality(
                                        {i \in 1..Len(refresh_tokens) :
                                            update_revoked_by_user(refresh_tokens, u, now)[i]
                                                # refresh_tokens[i]}),
                               !.seq = calls + 1]]
    /\ UNCHANGED <<now, ticks, envVars, token_blacklist, held, rotated, revoked_ok, rbacVars, rateVars>>

\* revoke_all_user_tokens, lines 141-154, when the update raises in the store:
\* no row changes and the handler returns 0.
RevokeAllFails(p, u) ==
    /\ call[p].pc = "idle"
    /\ calls < MaxCalls
    /\ calls' = calls + 1
    /\ call' = [Forget(p) EXCEPT ![p] =
                  [Idle EXCEPT !.op = "logout", !.caller = u, !.res = "fail",
                               !.conc = {q \in Procs \ {p} : call[q].pc # "idle"},
                               !.n = 0,
                               !.seq = calls + 1]]
    /\ UNCHANGED <<now, ticks, envVars, refresh_tokens, token_blacklist, held, rotated,
                   revoked_ok, rbacVars, rateVars>>

\* The revoke route: the authenticated user a presents the refresh token tk;
\* revoke_token, lines 116-126, runs on it whoever its subject is.
RevokeByUser(p, a, tk) ==
    /\ call[p].pc = "idle"
    /\ calls < MaxCalls
    /\ calls' = calls + 1
    /\ IF decode_refresh_token_ok(tk, now)
       THEN /\ token_blacklist' = Append(token_blacklist, blacklist_row(tk, "manual_revoke", utc_offset))
            /\ call' = [Forget(p) EXCEPT ![p] =
                          [Idle EXCEPT !.op = "revoke", !.tok = tk, !.pc = "v_update",
                                       !.caller = a, !.seq = calls + 1]]
       ELSE /\ token_blacklist' = token_blacklist
            /\ call' = [Forget(p) EXCEPT ![p] =
                          [Idle EXCEPT !.op = "revoke", !.tok = tk, !.res = "fail",
                                       !.caller = a, !.seq = calls + 1]]
    /\ UNCHANGED <<now, ticks, envVars, refresh_tokens, held, rotated, revoked_ok, rbacVars, rateVars>>

\* Stored procedure cleanup_expired_tokens(): the rows of a table that have not
\* expired are kept, expiry being tested as everywhere else in the service.
rpc_cleanup_expired_tokens(rows, t) == SelectSeq(rows, LAMBDA r : ~(r.expires_at < t))

\* TokenService.cleanup_expired_tokens: one call of the stored procedure, which
\* clears both tables of their expired rows.
CleanupExpiredTokens ==
    /\ \/ rpc_cleanup_expired_tokens(refresh_tokens, now) # refresh_tokens
       \/ rpc_cleanup_expired_tokens(token_blacklist, now) # token_blacklist
    /\ refresh_tokens' = rpc_cleanup_expired_tokens(refresh_tokens, now)
    /\ token_blacklist' = rpc_cleanup_expired_tokens(token_blacklist, now)
    /\ UNCHANGED <<now, ticks, envVars, calls, held, call, rotated, revoked_ok, rbacVars, rateVars>>

\* The wall clock moves on: by a second, by the lifetime of a refresh token, or
\* by a second more than that.
TokenClockSteps == {1, RefreshSeconds, RefreshSeconds + 1}

TokenTick(d) ==
    /\ ticks < MaxTicks
    /\ now' = now + d
    /\ ticks' = ticks + 1
    /\ UNCHANGED <<envVars, tokenVars, rbacVars, rateVars>>

(***************************************************************************)
(* services/rbac_service.py and api/rbac_middleware.py                     *)
(***************************************************************************)
MaxMemberChanges == 1   \* rows added to or deleted from space_members

Spaces  == {"w1", "w2"}
NoSpace == "None"          \* space_id is None
NoRole  == "None"          \* no membership row / user_role is None

WorkspaceRoles == {"viewer", "editor", "admin", "owner"}
RoleNames      == WorkspaceRoles \cup {"system"}

\* The roles the requests to add a member carry in these runs
\* (WorkspaceMemberAdd.role, workspaces.py line 41): the default 'member', which
\* the catalog does not hold, and a role of the catalog.
MemberAddRoles == {"member", "admin"}

\* A row of space_members whose role_id refers to the catalog entry of its role.
MemberRow(role) == [role |-> role, role_id |-> role]

\* The row add_workspace_member inserts (workspaces.py lines 333-337): the text
\* column role is written, role_id is left NULL.
RouteRow(role) == [role |-> role, role_id |-> NoRole]

\* No row for any (user, space) pair.
NoMembers == [m \in Users \X Spaces |-> <<>>]

\* The tables in which each pair has no row or one row that refers to the
\* catalog, the pairs of the users in members only.
MemberTables(members) ==
    {t \in [Users \X Spaces -> {<<>>} \cup {<<MemberRow(r)>> : r \in WorkspaceRoles}] :
        \A m \in Users \X Spaces : m[1] \notin members => t[m] = <<>>}

\* The roles catalog: hierarchy_level of each role name.
hierarchy_level(r) ==
    CASE r = "viewer" -> 60
      [] r = "editor" -> 70
      [] r = "admin"  -> 80
      [] r = "owner"  -> 90
      [] r = "system" -> 100

\* Stored procedure has_workspace_role(p_user_id, p_space_id, p_required_role):
\* the user's membership role in the space reaches the required role's level.
rpc_has_workspace_role(members, u, w, required) ==
    \E i \in DOMAIN members[<<u, w>>] :
       /\ members[<<u, w>>][i].role \in RoleNames
       /\ hierarchy_level(members[<<u, w>>][i].role) >= hierarchy_level(required)

\* The membership lookup of check_permission (lines 41-46) finds more than one
\* row: .maybeSingle() raises.
member_lookup_raises(members, u, w) == Len(members[<<u, w>>]) > 1

\* check_permission, lines 41-52: the role name the lookup select('role_id,
\* roles(name, hierarchy_level)') yields for the single row of (u, w); None
\* without a row and for a row whose role_id is NULL.
member_lookup(members, u, w) ==
    IF members[<<u, w>>] = <<>> THEN NoRole ELSE members[<<u, w>>][1].role_id

\* The reason check_permission gives for a denial (lines 64-68).
denial_reason(user_role, required) ==
    IF user_role # NoRole
    THEN <<"User role '", user_role, "' is insufficient for required role '", required, "'">>
    ELSE <<"User is not a member of this workspace">>

\* check_permission, lines 39-76: the RBACPermissionResult built from the answer
\* of has_workspace_role (allowed) and the role found by the membership lookup.
permission_result(allowed, user_role, required) ==
    [allowed |-> allowed,
     user_role |-> user_role,
     user_role_level |-> IF user_role # NoRole THEN hierarchy_level(user_role) ELSE NULL,
     required_role_level |-> hierarchy_level(required),
     reason |-> IF allowed THEN <<"None">> ELSE denial_reason(user_role, required)]

\* The result of check_permission without a space_id (lines 23-28).
no_workspace_result ==
    [allowed |-> FALSE, user_role |-> NoRole, user_role_level |-> NULL,
     required_role_level |-> NULL, reason |-> <<"No workspace specified">>]

\* RBACService.is_platform_admin: the flag of the user's row.
is_platform_admin(admins, u) == admins[u]

\* is_platform_admin with its exception handler (lines 138-140).
is_platform_admin_or_error(admins, u, raised) ==
    IF raised THEN FALSE ELSE is_platform_admin(admins, u)

\* The store calls of check_permission, in the order it makes them.
PermissionStoreCalls == {"rpc", "member", "role"}

\* The result of check_permission's exception handler (lines 79-84).
permission_error_result ==
    [allowed |-> FALSE, user_role |-> NoRole, user_role_level |-> NULL,
     required_role_level |-> NULL, reason |-> <<"Permission check error">>]

\* A handler that keeps the answer of has_workspace_role when a later lookup fails.
check_permission_or_error_keeps_rpc(result, raised) ==
    IF raised THEN [permission_error_result EXCEPT !.allowed = result.allowed] ELSE result

\* check_permission's try block (lines 23-84) around a store call: result is what
\* the call would return with the answers it holds; when the store call raises,
\* the handler's result replaces it.
check_permission_or_error(result, raised) ==
    IF raised THEN permission_error_result ELSE result

\* A dependency that lets platform admins through every role gate.
rbac_dependency_admin_bypass(admins, require_platform_admin, w, u, fails) ==
    IF fails = "get_db" THEN 500
    ELSE IF require_platform_admin
    THEN IF is_platform_admin_or_error(admins, u, fails = "admin") THEN 200 ELSE 403
    ELSE IF is_platform_admin(admins, u) THEN 200
    ELSE IF w = NoSpace THEN 400
    ELSE 0

\* RBACDependency.__call__, lines 23-49: the HTTP status decided before
\* check_permission is called (200 = current_user returned), 0 when the
\* dependency goes on to check_permission.  An exception raised in the
\* dependency itself (get_db) ends in 500 (lines 87-92).
rbac_dependency(admins, require_platform_admin, w, u, fails) ==
    IF fails = "get_db" THEN 500
    ELSE IF require_platform_admin
    THEN IF is_platform_admin_or_error(admins, u, fails = "admin") THEN 200 ELSE 403
    ELSE IF w = NoSpace THEN 400
    ELSE 0

\* RBACDependency.__call__, lines 57-84: 403 when the result denies, else the
\* user is returned to the route.
dependency_status(result) == IF result.allowed THEN 200 ELSE 403

\* No call in progress.  kind: "check" (check_permission called directly), "dep"
\* (the dependency), "admin" (is_platform_admin); pc: the store call a running
\* check_permission makes next, or "done"; fails: the store call that raised.
NoRbac == [kind |-> "none", pc |-> "none", user |-> "", space |-> NoSpace, required |-> "",
           platform |-> FALSE, allowed |-> FALSE, user_role |-> NoRole,
           rows_at_rpc |-> <<>>, reason |-> <<"None">>, status |-> 0, fails |-> "none"]

\* check_permission returns result to its caller r; the dependency turns it into
\* a status, with the result's reason as the detail of a 403.
Return(r, result) ==
    [r EXCEPT !.pc = "done", !.allowed = result.allowed, !.user_role = result.user_role,
              !.reason = result.reason,
              !.status = IF r.kind = "dep" THEN dependency_status(result) ELSE 0]

\* check_permission, lines 23-39, called by r: without a space_id the call
\* returns; else it asks has_workspace_role and keeps the answer.  rows_at_rpc
\* are the membership rows the stored procedure saw.
CheckPermissionEnter(r, members, raises) ==
    IF r.space = NoSpace THEN Return(r, no_workspace_result)
    ELSE IF raises
    THEN Return([r EXCEPT !.fails = "rpc"],
                check_permission_or_error(permission_result(FALSE, NoRole, r.required), TRUE))
    ELSE [r EXCEPT !.pc = "member",
                   !.allowed = rpc_has_workspace_role(members, r.user, r.space, r.required),
                   !.rows_at_rpc = members[<<r.user, r.space>>]]

\* check_permission(u, w, B) is called; raises: the stored procedure call raises.
CheckPermissionCall(u, w, B, raises) ==
    /\ rbac.kind = "none"
    /\ raises => w # NoSpace
    /\ rbac' = CheckPermissionEnter(
                  [NoRbac EXCEPT !.kind = "check", !.user = u, !.space = w, !.required = B],
                  space_members, raises)
    /\ UNCHANGED <<now, ticks, envVars, tokenVars, space_members, is_admin, member_changes,
                   rateVars>>

\* check_permission, lines 41-52: the lookup of the user's row in space_members.
\* raises: the store call fails; it also raises when it finds several rows.
CheckPermissionMember(raises) ==
    /\ rbac.pc = "member"
    /\ rbac' = IF raises \/ member_lookup_raises(space_members, rbac.user, rbac.space)
               THEN Return([rbac EXCEPT !.fails = "member"],
                           check_permission_or_error(
                              permission_result(rbac.allowed, NoRole, rbac.required), TRUE))
               ELSE [rbac EXCEPT !.pc = "role",
                                 !.user_role = member_lookup(space_members, rbac.user,
                                                             rbac.space)]
    /\ UNCHANGED <<now, ticks, envVars, tokenVars, space_members, is_admin, member_changes,
                   rateVars>>

\* check_permission, lines 54-76: the lookup of the required role's level, the
\* reason and the result.
CheckPermissionRoles(raises) ==
    /\ rbac.pc = "role"
    /\ rbac' = Return([rbac EXCEPT !.fails = IF raises THEN "role" ELSE "none"],
                      check_permission_or_error(
                         permission_result(rbac.allowed, rbac.user_role, rbac.required),
                         raises))
    /\ UNCHANGED <<now, ticks, envVars, tokenVars, space_members, is_admin, member_changes,
                   rateVars>>

\* The route add_workspace_member (workspaces.py, lines 321-360) once its access
\* check has passed: a row for (w, u) is inserted with the role of the request,
\* whether or not the pair has a row already.
AddWorkspaceMember(u, w, role) ==
    /\ member_changes < MaxMemberChanges
    /\ space_members' = [space_members EXCEPT ![<<u, w>>] = Append(@, RouteRow(role))]
    /\ member_changes' = member_changes + 1
    /\ UNCHANGED <<now, ticks, envVars, tokenVars, is_admin, rbac, rateVars>>

\* The route remove_workspace_member (workspaces.py, lines 373-395) once its
\* access check has passed: every row of (w, u) is deleted; without such a row
\* the route answers 404 and nothing changes.
RemoveWorkspaceMember(u, w) ==
    /\ member_changes < MaxMemberChanges
    /\ space_members[<<u, w>>] # <<>>
    /\ space_members' = [space_members EXCEPT ![<<u, w>>] = <<>>]
    /\ member_changes' = member_changes + 1
    /\ UNCHANGED <<now, ticks, envVars, tokenVars, is_admin, rbac, rateVars>>

\* RBACDependency.__call__, lines 18-55, for require_viewer .. require_owner
\* (platform = FALSE) or require_platform_admin (required = "system", platform =
\* TRUE): the platform branch and the missing space_id end the call; else
\* check_permission is entered and goes on with CheckPermissionMember and
\* CheckPermissionRoles.  fails: the store call of this step that raises.
DependencyCall(u, w, B, platform, fails) ==
    /\ rbac.kind = "none"
    /\ platform <=> (B = "system")
    /\ fails = "admin" => platform
    /\ fails = "rpc" => (~platform /\ w # NoSpace)
    /\ rbac' = IF rbac_dependency(is_admin, platform, w, u, fails) # 0
               THEN [NoRbac EXCEPT !.kind = "dep", !.pc = "done", !.user = u, !.space = w,
                                   !.required = B, !.platform = platform, !.fails = fails,
                                   !.status = rbac_dependency(is_admin, platform, w, u, fails)]
               ELSE CheckPermissionEnter(
                       [NoRbac EXCEPT !.kind = "dep", !.user = u, !.space = w,
                                      !.required = B, !.platform = platform],
                       space_members, fails = "rpc")
    /\ UNCHANGED <<now, ticks, envVars, tokenVars, space_members, is_admin, member_changes,
                   rateVars>>

\* is_platform_admin(u) is called; raises: its lookup raises.
PlatformAdminCall(u, raises) ==
    /\ rbac.kind = "none"
    /\ rbac' = [NoRbac EXCEPT !.kind = "admin", !.pc = "done", !.user = u,
                              !.required = "system", !.platform = TRUE,
                              !.allowed = is_platform_admin_or_error(is_admin, u, raises),
                              !.fails = IF raises THEN "admin" ELSE "none"]
    /\ UNCHANGED <<now, ticks, envVars, tokenVars, space_members, is_admin, member_changes,
                   rateVars>>

RbacFaultNext ==
    \/ \E u \in Users, w \in Spaces, B \in WorkspaceRoles, raises \in BOOLEAN :
          CheckPermissionCall(u, w, B, raises)
    \/ \E raises \in BOOLEAN : CheckPermissionMember(raises)
    \/ \E raises \in BOOLEAN : CheckPermissionRoles(raises)
    \/ \E u \in Users, raises \in BOOLEAN : PlatformAdminCall(u, raises)
    \/ \E u \in Users, w \in Spaces \cup {NoSpace}, B \in RoleNames, platform \in BOOLEAN,
          fails \in {"none", "get_db", "admin", "rpc"} : DependencyCall(u, w, B, platform, fails)
    \/ \E u \in Users, w \in Spaces, role \in MemberAddRoles : AddWorkspaceMember(u, w, role)
    \/ \E u \in Users, w \in Spaces : RemoveWorkspaceMember(u, w)

RbacNext ==
    \/ \E u \in Users, w \in Spaces \cup {NoSpace}, B \in WorkspaceRoles :
          CheckPermissionCall(u, w, B, FALSE)
    \/ CheckPermissionMember(FALSE)
    \/ CheckPermissionRoles(FALSE)
    \/ \E u \in Users, w \in Spaces, role \in MemberAddRoles : AddWorkspaceMember(u, w, role)
    \/ \E u \in Users, w \in Spaces : RemoveWorkspaceMember(u, w)
    \/ \E u \in Users, w \in Spaces \cup {NoSpace}, B \in RoleNames, platform \in BOOLEAN :
          DependencyCall(u, w, B, platform, "none")

(***************************************************************************)
(* Strings as sequences of characters (Python str operations).  A printable *)
(* ASCII character is written as itself, every other character (and the    *)
(* double quote, the backslash and the backquote) by its code point,       *)
(* "U+0663".                                                               *)
(***************************************************************************)
AsciiDigits == <<"0", "1", "2", "3", "4", "5", "6", "7", "8", "9">>

\* The non-ASCII characters with str.isdecimal(), by their decimal value 0 to 9
\* (entry v + 1 holds the characters of value v).
UnicodeDecimalsOf ==
    << { "U+0660", "U+06F0", "U+07C0", "U+0966", "U+09E6", "U+0A66", "U+0AE6", "U+0B66", "U+0BE6",
         "U+0C66", "U+0CE6", "U+0D66", "U+0DE6", "U+0E50", "U+0ED0", "U+0F20", "U+1040", "U+1090",
         "U+17E0", "U+1810", "U+1946", "U+19D0", "U+1A80", "U+1A90", "U+1B50", "U+1BB0", "U+1C40",
         "U+1C50", "U+A620", "U+A8D0", "U+A900", "U+A9D0", "U+A9F0", "U+AA50", "U+ABF0", "U+FF10",
         "U+104A0", "U+10D30", "U+11066", "U+110F0", "U+11136", "U+111D0", "U+112F0", "U+11450",
         "U+114D0", "U+11650", "U+116C0", "U+11730", "U+118E0", "U+11950", "U+11C50", "U+11D50",
         "U+11DA0", "U+16A60", "U+16AC0", "U+16B50", "U+1D7CE", "U+1D7D8", "U+1D7E2", "U+1D7EC",
         "U+1D7F6", "U+1E140", "U+1E2F0", "U+1E950", "U+1FBF0" },
       { "U+0661", "U+06F1", "U+07C1", "U+0967", "U+09E7", "U+0A67", "U+0AE7", "U+0B67", "U+0BE7",
         "U+0C67", "U+0CE7", "U+0D67", "U+0DE7", "U+0E51", "U+0ED1", "U+0F21", "U+1041", "U+1091",
         "U+17E1", "U+1811", "U+1947", "U+19D1", "U+1A81", "U+1A91", "U+1B51", "U+1BB1", "U+1C41",
         "U+1C51", "U+A621", "U+A8D1", "U+A901", "U+A9D1", "U+A9F1", "U+AA51", "U+ABF1", "U+FF11",
         "U+104A1", "U+10D31", "U+11067", "U+110F1", "U+11137", "U+111D1", "U+112F1", "U+11451",
         "U+114D1", "U+11651", "U+116C1", "U+11731", "U+118E1", "U+11951", "U+11C51", "U+11D51",
         "U+11DA1", "U+16A61", "U+16AC1", "U+16B51", "U+1D7CF", "U+1D7D9", "U+1D7E3", "U+1D7ED",
         "U+1D7F7", "U+1E141", "U+1E2F1", "U+1E951", "U+1FBF1" },
       { "U+0662", "U+06F2", "U+07C2", "U+0968", "U+09E8", "U+0A68", "U+0AE8", "U+0B68", "U+0BE8",
         "U+0C68", "U+0CE8", "U+0D68", "U+0DE8", "U+0E52", "U+0ED2", "U+0F22", "U+1042", "U+1092",
         "U+17E2", "U+1812", "U+1948", "U+19D2", "U+1A82", "U+1A92", "U+1B52", "U+1BB2", "U+1C42",
         "U+1C52", "U+A622", "U+A8D2", "U+A902", "U+A9D2", "U+A9F2", "U+AA52", "U+ABF2", "U+FF12",
         "U+104A2", "U+10D32", "U+11068", "U+110F2", "U+11138", "U+111D2", "U+112F2", "U+11452",
         "U+114D2", "U+11652", "U+116C2", "U+11732", "U+118E2", "U+11952", "U+11C52", "U+11D52",
         "U+11DA2", "U+16A62", "U+16AC2", "U+16B52", "U+1D7D0", "U+1D7DA", "U+1D7E4", "U+1D7EE",
         "U+1D7F8", "U+1E142", "U+1E2F2", "U+1E952", "U+1FBF2" },
       { "U+0663", "U+06F3", "U+07C3", "U+0969", "U+09E9", "U+0A69", "U+0AE9", "U+0B69", "U+0BE9",
         "U+0C69", "U+0CE9", "U+0D69", "U+0DE9", "U+0E53", "U+0ED3", "U+0F23", "U+1043", "U+1093",
         "U+17E3", "U+1813", "U+1949", "U+19D3", "U+1A83", "U+1A93", "U+1B53", "U+1BB3", "U+1C43",
         "U+1C53", "U+A623", "U+A8D3", "U+A903", "U+A9D3", "U+A9F3", "U+AA53", "U+ABF3", "U+FF13",
         "U+104A3", "U+10D33", "U+11069", "U+110F3", "U+11139", "U+111D3", "U+112F3", "U+11453",
         "U+114D3", "U+11653", "U+116C3", "U+11733", "U+118E3", "U+11953", "U+11C53", "U+11D53",
         "U+11DA3", "U+16A63", "U+16AC3", "U+16B53", "U+1D7D1", "U+1D7DB", "U+1D7E5", "U+1D7EF",
         "U+1D7F9", "U+1E143", "U+1E2F3", "U+1E953", "U+1FBF3" },
       { "U+0664", "U+06F4", "U+07C4", "U+096A", "U+09EA", "U+0A6A", "U+0AEA", "U+0B6A", "U+0BEA",
         "U+0C6A", "U+0CEA", "U+0D6A", "U+0DEA", "U+0E54", "U+0ED4", "U+0F24", "U+1044", "U+1094",
         "U+17E4", "U+1814", "U+194A", "U+19D4", "U+1A84", "U+1A94", "U+1B54", "U+1BB4", "U+1C44",
         "U+1C54", "U+A624", "U+A8D4", "U+A904", "U+A9D4", "U+A9F4", "U+AA54", "U+ABF4", "U+FF14",
         "U+104A4", "U+10D34", "U+1106A", "U+110F4", "U+1113A", "U+111D4", "U+112F4", "U+11454",
         "U+114D4", "U+11654", "U+116C4", "U+11734", "U+118E4", "U+11954", "U+11C54", "U+11D54",
         "U+11DA4", "U+16A64", "U+16AC4", "U+16B54", "U+1D7D2", "U+1D7DC", "U+1D7E6", "U+1D7F0",
         "U+1D7FA", "U+1E144", "U+1E2F4", "U+1E954", "U+1FBF4" },
       { "U+0665", "U+06F5", "U+07C5", "U+096B", "U+09EB", "U+0A6B", "U+0AEB", "U+0B6B", "U+0BEB",
         "U+0C6B", "U+0CEB", "U+0D6B", "U+0DEB", "U+0E55", "U+0ED5", "U+0F25", "U+1045", "U+1095",
         "U+17E5", "U+1815", "U+194B", "U+19D5", "U+1A85", "U+1A95", "U+1B55", "U+1BB5", "U+1C45",
         "U+1C55", "U+A625", "U+A8D5", "U+A905", "U+A9D5", "U+A9F5", "U+AA55", "U+ABF5", "U+FF15",
         "U+104A5", "U+10D35", "U+1106B", "U+110F5", "U+1113B", "U+111D5", "U+112F5", "U+11455",
         "U+114D5", "U+11655", "U+116C5", "U+11735", "U+118E5", "U+11955", "U+11C55", "U+11D55",
         "U+11DA5", "U+16A65", "U+16AC5", "U+16B55", "U+1D7D3", "U+1D7DD", "U+1D7E7", "U+1D7F1",
         "U+1D7FB", "U+1E145", "U+1E2F5", "U+1E955", "U+1FBF5" },
       { "U+0666", "U+06F6", "U+07C6", "U+096C", "U+09EC", "U+0A6C", "U+0AEC", "U+0B6C", "U+0BEC",
         "U+0C6C", "U+0CEC", "U+0D6C", "U+0DEC", "U+0E56", "U+0ED6", "U+0F26", "U+1046", "U+1096",
         "U+17E6", "U+1816", "U+194C", "U+19D6", "U+1A86", "U+1A96", "U+1B56", "U+1BB6", "U+1C46",
         "U+1C56", "U+A626", "U+A8D6", "U+A906", "U+A9D6", "U+A9F6", "U+AA56", "U+ABF6", "U+FF16",
         "U+104A6", "U+10D36", "U+1106C", "U+110F6", "U+1113C", "U+111D6", "U+112F6", "U+11456",
         "U+114D6", "U+11656", "U+116C6", "U+11736", "U+118E6", "U+11956", "U+11C56", "U+11D56",
         "U+11DA6", "U+16A66", "U+16AC6", "U+16B56", "U+1D7D4", "U+1D7DE", "U+1D7E8", "U+1D7F2",
         "U+1D7FC", "U+1E146", "U+1E2F6", "U+1E956", "U+1FBF6" },
       { "U+0667", "U+06F7", "U+07C7", "U+096D", "U+09ED", "U+0A6D", "U+0AED", "U+0B6D", "U+0BED",
         "U+0C6D", "U+0CED", "U+0D6D", "U+0DED", "U+0E57", "U+0ED7", "U+0F27", "U+1047", "U+1097",
         "U+17E7", "U+1817", "U+194D", "U+19D7", "U+1A87", "U+1A97", "U+1B57", "U+1BB7", "U+1C47",
         "U+1C57", "U+A627", "U+A8D7", "U+A907", "U+A9D7", "U+A9F7", "U+AA57", "U+ABF7", "U+FF17",
         "U+104A7", "U+10D37", "U+1106D", "U+110F7", "U+1113D", "U+111D7", "U+112F7", "U+11457",
         "U+114D7", "U+11657", "U+116C7", "U+11737", "U+118E7", "U+11957", "U+11C57", "U+11D57",
         "U+11DA7", "U+16A67", "U+16AC7", "U+16B57", "U+1D7D5", "U+1D7DF", "U+1D7E9", "U+1D7F3",
         "U+1D7FD", "U+1E147", "U+1E2F7", "U+1E957", "U+1FBF7" },
       { "U+0668", "U+06F8", "U+07C8", "U+096E", "U+09EE", "U+0A6E", "U+0AEE", "U+0B6E", "U+0BEE",
         "U+0C6E", "U+0CEE", "U+0D6E", "U+0DEE", "U+0E58", "U+0ED8", "U+0F28", "U+1048", "U+1098",
         "U+17E8", "U+1818", "U+194E", "U+19D8", "U+1A88", "U+1A98", "U+1B58", "U+1BB8", "U+1C48",
         "U+1C58", "U+A628", "U+A8D8", "U+A908", "U+A9D8", "U+A9F8", "U+AA58", "U+ABF8", "U+FF18",
         "U+104A8", "U+10D38", "U+1106E", "U+110F8", "U+1113E", "U+111D8", "U+112F8", "U+11458",
         "U+114D8", "U+11658", "U+116C8", "U+11738", "U+118E8", "U+11958", "U+11C58", "U+11D58",
         "U+11DA8", "U+16A68", "U+16AC8", "U+16B58", "U+1D7D6", "U+1D7E0", "U+1D7EA", "U+1D7F4",
         "U+1D7FE", "U+1E148", "U+1E2F8", "U+1E958", "U+1FBF8" },
       { "U+0669", "U+06F9", "U+07C9", "U+096F", "U+09EF", "U+0A6F", "U+0AEF", "U+0B6F", "U+0BEF",
         "U+0C6F", "U+0CEF", "U+0D6F", "U+0DEF", "U+0E59", "U+0ED9", "U+0F29", "U+1049", "U+1099",
         "U+17E9", "U+1819", "U+194F", "U+19D9", "U+1A89", "U+1A99", "U+1B59", "U+1BB9", "U+1C49",
         "U+1C59", "U+A629", "U+A8D9", "U+A909", "U+A9D9", "U+A9F9", "U+AA59", "U+ABF9", "U+FF19",
         "U+104A9", "U+10D39", "U+1106F", "U+110F9", "U+1113F", "U+111D9", "U+112F9", "U+11459",
         "U+114D9", "U+11659", "U+116C9", "U+11739", "U+118E9", "U+11959", "U+11C59", "U+11D59",
         "U+11DA9", "U+16A69", "U+16AC9", "U+16B59", "U+1D7D7", "U+1D7E1", "U+1D7EB", "U+1D7F5",
         "U+1D7FF", "U+1E149", "U+1E2F9", "U+1E959", "U+1FBF9" } >>

UnicodeDecimals == UNION {UnicodeDecimalsOf[v] : v \in 1..10}

\* The characters with str.isdigit() that are not decimal digits (superscripts,
\* circled digits and the like).
UnicodeOtherDigits ==
    { "U+00B2", "U+00B3", "U+00B9", "U+1369", "U+136A", "U+136B", "U+136C", "U+136D", "U+136E",
      "U+136F", "U+1370", "U+1371", "U+19DA", "U+2070", "U+2074", "U+2075", "U+2076", "U+2077",
      "U+2078", "U+2079", "U+2080", "U+2081", "U+2082", "U+2083", "U+2084", "U+2085", "U+2086",
      "U+2087", "U+2088", "U+2089", "U+2460", "U+2461", "U+2462", "U+2463", "U+2464", "U+2465",
      "U+2466", "U+2467", "U+2468", "U+2474", "U+2475", "U+2476", "U+2477", "U+2478", "U+2479",
      "U+247A", "U+247B", "U+247C", "U+2488", "U+2489", "U+248A", "U+248B", "U+248C", "U+248D",
      "U+248E", "U+248F", "U+2490", "U+24EA", "U+24F5", "U+24F6", "U+24F7", "U+24F8", "U+24F9",
      "U+24FA", "U+24FB", "U+24FC", "U+24FD", "U+24FF", "U+2776", "U+2777", "U+2778", "U+2779",
      "U+277A", "U+277B", "U+277C", "U+277D", "U+277E", "U+2780", "U+2781", "U+2782", "U+2783",
      "U+2784", "U+2785", "U+2786", "U+2787", "U+2788", "U+278A", "U+278B", "U+278C", "U+278D",
      "U+278E", "U+278F", "U+2790", "U+2791", "U+2792", "U+10A40", "U+10A41", "U+10A42",
      "U+10A43", "U+10E60", "U+10E61", "U+10E62", "U+10E63", "U+10E64", "U+10E65", "U+10E66",
      "U+10E67", "U+10E68", "U+11052", "U+11053", "U+11054", "U+11055", "U+11056", "U+11057",
      "U+11058", "U+11059", "U+1105A", "U+1F100", "U+1F101", "U+1F102", "U+1F103", "U+1F104",
      "U+1F105", "U+1F106", "U+1F107", "U+1F108", "U+1F109", "U+1F10A" }

\* The non-ASCII characters with str.isspace().
UnicodeSpaces ==
    { "U+0085", "U+00A0", "U+1680", "U+2000", "U+2001", "U+2002", "U+2003", "U+2004", "U+2005",
      "U+2006", "U+2007", "U+2008", "U+2009", "U+200A", "U+2028", "U+2029", "U+202F", "U+205F",
      "U+3000" }

\* The characters c with c.isdigit().
Digits == {AsciiDigits[v] : v \in 1..10} \cup UnicodeDecimals \cup UnicodeOtherDigits

\* The digits of base 16 after int()'s conversion of the string to ASCII.
HexDigits == {AsciiDigits[v] : v \in 1..10}
                 \cup {"a", "b", "c", "d", "e", "f", "A", "B", "C", "D", "E", "F"}

\* The white space int() strips from both ends of the converted string.
AsciiSpaces == {" ", "U+0009", "U+000A", "U+000B", "U+000C", "U+000D"}

\* The characters below code point 127, which the conversion leaves as they are.
AsciiChars ==
    { "U+0000", "U+0001", "U+0002", "U+0003", "U+0004", "U+0005", "U+0006", "U+0007", "U+0008",
      "U+0009", "U+000A", "U+000B", "U+000C", "U+000D", "U+000E", "U+000F", "U+0010", "U+0011",
      "U+0012", "U+0013", "U+0014", "U+0015", "U+0016", "U+0017", "U+0018", "U+0019", "U+001A",
      "U+001B", "U+001C", "U+001D", "U+001E", "U+001F" } \cup
    { " ", "!", "U+0022", "#", "$", "%", "&", "'", "(", ")", "*", "+", ",", "-", ".", "/", "0", "1",
      "2", "3", "4", "5", "6", "7", "8", "9", ":", ";", "<", "=", ">", "?", "@", "A", "B", "C",
      "D", "E", "F", "G", "H", "I", "J", "K", "L", "M", "N", "O", "P", "Q", "R", "S", "T", "U",
      "V", "W", "X", "Y", "Z", "[", "U+005C", "]", "^", "_", "U+0060", "a", "b", "c", "d", "e", "f", "g",
      "h", "i", "j", "k", "l", "m", "n", "o", "p", "q", "r", "s", "t", "u", "v", "w", "x", "y",
      "z", "{", "|", "}", "~" }

\* s.startswith(prefix)
StartsWith(s, prefix) ==
    /\ Len(prefix) <= Len(s)
    /\ SubSeq(s, 1, Len(prefix)) = prefix

\* s.endswith(suffix)
EndsWith(s, suffix) ==
    /\ Len(suffix) <= Len(s)
    /\ SubSeq(s, Len(s) - Len(suffix) + 1, Len(s)) = suffix

\* s.split(sep) for a one-character separator: the parts between the separators.
RECURSIVE Split(_, _)
Split(s, sep) ==
    IF \A i \in 1..Len(s) : s[i] # sep
    THEN <<s>>
    ELSE LET i == CHOOSE j \in 1..Len(s) : s[j] = sep /\ \A k \in 1..(j - 1) : s[k] # sep
         IN <<SubSeq(s, 1, i - 1)>> \o Split(SubSeq(s, i + 1, Len(s)), sep)

\* sep.join(parts)
RECURSIVE Join(_, _)
Join(parts, sep) ==
    IF parts = <<>> THEN <<>>
    ELSE IF Len(parts) = 1 THEN parts[1]
    ELSE parts[1] \o sep \o Join(Tail(parts), sep)

\* s.replace(old, ""): every occurrence of old removed, left to right.
RECURSIVE Remove(_, _)
Remove(s, old) ==
    IF s = <<>> THEN <<>>
    ELSE IF StartsWith(s, old) THEN Remove(SubSeq(s, Len(old) + 1, Len(s)), old)
    ELSE <<s[1]>> \o Remove(Tail(s), old)

\* s.strip(chars)
RECURSIVE Strip(_, _)
Strip(s, cs) ==
    IF s = <<>> THEN <<>>
    ELSE IF s[1] \in cs THEN Strip(Tail(s), cs)
    ELSE IF s[Len(s)] \in cs THEN Strip(SubSeq(s, 1, Len(s) - 1), cs)
    ELSE s

\* s.isdigit()
IsDigit(s) == s # <<>> /\ \A i \in 1..Len(s) : s[i] \in Digits

(***************************************************************************)
(* api/redis_rate_limit_middleware.py: helpers                             *)
(***************************************************************************)
\* int(s, 16) of a str: a non-ASCII space becomes " ", a non-ASCII decimal digit
\* the ASCII digit of its value, any other non-ASCII character "?".
TransformDecimalAndSpaceToASCII(s) ==
    [i \in 1..Len(s) |->
        IF s[i] \in UnicodeSpaces THEN " "
        ELSE IF s[i] \in UnicodeDecimals
        THEN AsciiDigits[CHOOSE v \in 1..10 : s[i] \in UnicodeDecimalsOf[v]]
        ELSE IF s[i] \in AsciiChars THEN s[i]
        ELSE "?"]

\* int(s, 16) returns a number (TRUE) or raises ValueError (FALSE): white space
\* around, an optional sign, an optional 0x / 0X prefix that one underscore may
\* follow, then hexadecimal digits with single underscores between them.
\* The string without its sign.
unsigned(stripped) ==
    IF stripped # <<>> /\ stripped[1] \in {"+", "-"} THEN Tail(stripped) ELSE stripped

\* The string without its 0x / 0X prefix and the one underscore that may follow it.
after0x(u) ==
    IF StartsWith(u, <<"0", "x">>) \/ StartsWith(u, <<"0", "X">>)
    THEN (IF Len(u) >= 3 /\ u[3] = "_" THEN SubSeq(u, 4, Len(u)) ELSE SubSeq(u, 3, Len(u)))
    ELSE u

\* Hexadecimal digits with single underscores between them.
digits_ok(digits) ==
    /\ digits # <<>>
    /\ digits[1] # "_"
    /\ digits[Len(digits)] # "_"
    /\ \A i \in 1..Len(digits) : digits[i] \in HexDigits \cup {"_"}
    /\ \A i \in 1..(Len(digits) - 1) : ~(digits[i] = "_" /\ digits[i + 1] = "_")

int_base16_ok(s) ==
    digits_ok(after0x(unsigned(Strip(TransformDecimalAndSpaceToASCII(s), AsciiSpaces))))

\* _is_uuid: uuid.UUID(value) succeeds: after dropping "urn:", "uuid:", the
\* surrounding braces and the hyphens, 32 characters remain that int(hex, 16)
\* accepts.
_is_uuid(value) ==
    LET hex == Remove(Strip(Remove(Remove(value, <<"u", "r", "n", ":">>),
                                   <<"u", "u", "i", "d", ":">>),
                            {"{", "}"}),
                      <<"-">>)
    IN Len(hex) = 32 /\ int_base16_ok(hex)

\* A loop that replaces UUID parts only and keeps all-digit parts.
RECURSIVE normalize_parts_uuid_only(_)
normalize_parts_uuid_only(parts) ==
    IF parts = <<>> THEN <<>>
    ELSE LET part == parts[1]
             rest == normalize_parts_uuid_only(Tail(parts))
         IN IF part # <<>> /\ ~_is_uuid(part) THEN <<part>> \o rest
            ELSE IF part # <<>> THEN <<<<"*">>>> \o rest
            ELSE rest

\* The loop of _normalize_endpoint over the parts of the path.
RECURSIVE normalize_parts(_)
normalize_parts(parts) ==
    IF parts = <<>> THEN <<>>
    ELSE LET part == parts[1]
             rest == normalize_parts(Tail(parts))
         IN IF part # <<>> /\ ~_is_uuid(part) /\ ~IsDigit(part) THEN <<part>> \o rest
            ELSE IF part # <<>> THEN <<<<"*">>>> \o rest
            ELSE rest

\* _normalize_endpoint
_normalize_endpoint(path) ==
    LET normalized == normalize_parts(Split(path, "/"))
    IN IF normalized # <<>>
       THEN <<"/">> \o Join(normalized, <<"/">>) \o <<"/", "*">>
       ELSE path

(***************************************************************************)
(* Request paths of the model                                              *)
(***************************************************************************)
PathCloneA   == <<"/", "a", "p", "i", "/", "c", "l", "o", "n", "e", "s", "/", "1", "1", "1", "1", "1", "1", "1", "1", "-", "1", "1", "1", "1", "-", "1", "1", "1", "1", "-", "1", "1", "1", "1", "-", "1", "1", "1", "1", "1", "1", "1", "1", "1", "1", "1", "1">>
PathCloneB   == <<"/", "a", "p", "i", "/", "c", "l", "o", "n", "e", "s", "/", "2", "2", "2", "2", "2", "2", "2", "2", "-", "2", "2", "2", "2", "-", "2", "2", "2", "2", "-", "2", "2", "2", "2", "-", "2", "2", "2", "2", "2", "2", "2", "2", "2", "2", "2", "2">>
PathCloneNum == <<"/", "a", "p", "i", "/", "c", "l", "o", "n", "e", "s", "/", "4", "2">>
\* An id that uuid.UUID accepts through int()'s 0x prefix, and an id of
\* Arabic-Indic digits.
PathCloneHex == <<"/", "a", "p", "i", "/", "c", "l", "o", "n", "e", "s", "/", "0", "x", "1", "1", "1", "1", "1", "1", "1", "1", "1", "1", "1", "1", "1", "1", "1", "1", "1", "1", "1", "1", "1", "1", "1", "1", "1", "1", "1", "1", "1", "1">>
PathCloneArabic == <<"/", "a", "p", "i", "/", "c", "l", "o", "n", "e", "s", "/", "U+0663", "U+0664">>
PathHealth   == <<"/", "a", "p", "i", "/", "h", "e", "a", "l", "t", "h">>
PathLogin    == <<"/", "a", "p", "i", "/", "a", "u", "t", "h", "/", "l", "o", "g", "i", "n">>
PathRegister == <<"/", "a", "p", "i", "/", "a", "u", "t", "h", "/", "r", "e", "g", "i", "s", "t", "e", "r">>
PathDocs     == <<"/", "d", "o", "c", "s">>
PrefixApi    == <<"/", "a", "p", "i", "/">>

\* The paths whose normalized endpoint the model tabulates.
TabulatedPaths ==
    {PathCloneA, PathCloneB, PathCloneNum, PathHealth, PathDocs, PathCloneHex, PathCloneArabic}

\* bypass_routes of RedisRateLimitMiddleware.dispatch
bypass_routes == {PathHealth, PathLogin, PathRegister}

\* Pairs of request paths of the model that differ only in parts that are UUIDs
\* or all-digit ids (the parts _normalize_endpoint tests for).
AlikePaths ==
    {pq \in TabulatedPaths \X TabulatedPaths :
        LET a == Split(pq[1], "/")
            b == Split(pq[2], "/")
        IN /\ Len(a) = Len(b)
           /\ \A i \in 1..Len(a) :
                 \/ a[i] = b[i]
                 \/ /\ _is_uuid(a[i]) \/ IsDigit(a[i])
                    /\ _is_uuid(b[i]) \/ IsDigit(b[i])}

\* For each request path of the model, the paths that differ from it only so.
AlikeOf == [p \in TabulatedPaths |-> {q \in TabulatedPaths : <<p, q>> \in AlikePaths}]

\* _normalize_endpoint of each request path of the model, computed once.
EndpointOf == [p \in TabulatedPaths |-> _normalize_endpoint(p)]

\* request.url.path.startswith('/api/') of each request path of the model.
IsApiPath == [p \in TabulatedPaths |-> StartsWith(p, PrefixApi)]

(***************************************************************************)
(* The counter store (Redis) with key expiry                               *)
(***************************************************************************)
\* GET: the value of a live key, nil (read as 0 by `or 0`) otherwise.
redis_get(store, k, t) ==
    IF k \in DOMAIN store /\ store[k].exp > t THEN store[k].val ELSE 0

\* TTL: seconds left of a live key, -2 for a key that does not exist.
redis_ttl(store, k, t) ==
    IF k \in DOMAIN store /\ store[k].exp > t THEN store[k].exp - t ELSE 0 - 2

\* INCR k followed by EXPIRE k secs, as queued in the pipeline.
redis_incr_expire(store, k, secs, t) ==
    [j \in DOMAIN store \cup {k} |->
        IF j = k THEN [val |-> redis_get(store, k, t) + 1, exp |-> t + secs]
        ELSE store[j]]

\* Keys whose time to live has run out are gone.
redis_purge(store, t) ==
    [j \in {k \in DOMAIN store : redis_get(store, k, t) # 0} |-> store[j]]

(***************************************************************************)
(* services/redis_rate_limit_service.py                                    *)
(***************************************************************************)
\* users.billing_plan
billing_plan(u) == IF u = "u1" THEN "free" ELSE "pro"

\* _get_key
_get_key(user_id, endpoint, window) == <<"ratelimit", window, user_id, endpoint>>

\* _matches_pattern
_matches_pattern(endpoint, pattern) ==
    IF EndsWith(pattern, <<"/", "*">>)
    THEN StartsWith(endpoint, SubSeq(pattern, 1, Len(pattern) - 2))
    ELSE endpoint = pattern

\* The fallback limits of _get_plan_limits.
DefaultLimits == [per_minute |-> 10, per_hour |-> 100, per_day |-> 1000]

\* _get_plan_limits: the first configuration row of the user's plan (role null)
\* whose pattern matches the endpoint, the fallback when there is none.
_get_plan_limits(configs, user_id, endpoint) ==
    LET plan == billing_plan(user_id)
        hits == {i \in 1..Len(configs) :
                    /\ configs[i].plan = plan
                    /\ configs[i].role = "null"
                    /\ _matches_pattern(endpoint, configs[i].endpoint_pattern)}
    IN IF hits = {} THEN DefaultLimits
       ELSE LET i == CHOOSE j \in hits : \A k \in hits : j <= k
            IN [per_minute |-> configs[i].requests_per_minute,
                per_hour   |-> configs[i].requests_per_hour,
                per_day    |-> configs[i].requests_per_day]

\* The result dictionary of check_rate_limit (absent entries are NULL / "None").
RateResult(allowed, count, limits, reset_at, window, reason) ==
    [allowed |-> allowed, current_count |-> count,
     limit_per_minute |-> limits.per_minute, limit_per_hour |-> limits.per_hour,
     limit_per_day |-> limits.per_day,
     reset_at |-> reset_at, window |-> window, reason |-> reason]

NoLimits == [per_minute |-> NULL, per_hour |-> NULL, per_day |-> NULL]

\* The comparison with an off-by-one: a window is violated only above its limit.
limit_reached_above(count, limit) == count > limit

\* The comparison of check_rate_limit: a window is violated once its counter has
\* reached the limit.
limit_reached(count, limit) == count >= limit

\* The result of check_rate_limit's exception handlers.
error_result(reason) == RateResult(TRUE, 0, NoLimits, NULL, "None", reason)

\* A check that examines the windows from the longest to the shortest.
check_rate_limit_day_first(enabled, store, configs, user_id, endpoint, t, read_fails) ==
    IF ~enabled
    THEN RateResult(TRUE, 0, [NoLimits EXCEPT !.per_minute = 999999], NULL, "None",
                    "rate_limiting_disabled")
    ELSE IF read_fails
    THEN error_result("redis_error")
    ELSE
      LET limits       == _get_plan_limits(configs, user_id, endpoint)
          key_minute   == _get_key(user_id, endpoint, "minute")
          key_hour     == _get_key(user_id, endpoint, "hour")
          key_day      == _get_key(user_id, endpoint, "day")
          count_minute == redis_get(store, key_minute, t)
          count_hour   == redis_get(store, key_hour, t)
          count_day    == redis_get(store, key_day, t)
          Max0(x)      == IF x > 0 THEN x ELSE 0
      IN IF limit_reached(count_day, limits.per_day)
         THEN RateResult(FALSE, count_day, limits,
                         t + Max0(redis_ttl(store, key_day, t)), "day", "None")
         ELSE IF limit_reached(count_hour, limits.per_hour)
         THEN RateResult(FALSE, count_hour, limits,
                         t + Max0(redis_ttl(store, key_hour, t)), "hour", "None")
         ELSE IF limit_reached(count_minute, limits.per_minute)
         THEN RateResult(FALSE, count_minute, limits,
                         t + Max0(redis_ttl(store, key_minute, t)), "minute", "None")
         ELSE RateResult(TRUE, count_minute, limits, t + 60, "None", "None")

\* check_rate_limit, lines 93, 105 and 117: the first window, in the order
\* minute, hour, day, whose counter as read has reached its limit; "None" when
\* no window has.
violated_window(limits, count_minute, count_hour, count_day) ==
    IF limit_reached(count_minute, limits.per_minute) THEN "minute"
    ELSE IF limit_reached(count_hour, limits.per_hour) THEN "hour"
    ELSE IF limit_reached(count_day, limits.per_day) THEN "day"
    ELSE "None"

\* check_rate_limit, lines 94-136: the result for the violated window, whose TTL
\* has been read after the comparison, or the admission; t is utcnow() when the
\* result is made, and reset_at the time t + max(ttl, 0), or t + 1 minute.
window_result(limits, window, count_minute, count_hour, count_day, ttl, t) ==
    IF window = "None"
    THEN RateResult(TRUE, count_minute, limits, t + 60, "None", "None")
    ELSE RateResult(FALSE,
                    IF window = "minute" THEN count_minute
                    ELSE IF window = "hour" THEN count_hour ELSE count_day,
                    limits, t + (IF ttl > 0 THEN ttl ELSE 0), window, "None")

\* check_rate_limit when no other client of the counter store runs between its
\* round trips.  read_fails: the counter store raises during the reads.
check_rate_limit(enabled, store, configs, user_id, endpoint, t, read_fails) ==
    IF ~enabled
    THEN RateResult(TRUE, 0, [NoLimits EXCEPT !.per_minute = 999999], NULL, "None",
                    "rate_limiting_disabled")
    ELSE IF read_fails
    THEN error_result("redis_error")
    ELSE
      LET limits       == _get_plan_limits(configs, user_id, endpoint)
          count_minute == redis_get(store, _get_key(user_id, endpoint, "minute"), t)
          count_hour   == redis_get(store, _get_key(user_id, endpoint, "hour"), t)
          count_day    == redis_get(store, _get_key(user_id, endpoint, "day"), t)
          window       == violated_window(limits, count_minute, count_hour, count_day)
      IN window_result(limits, window, count_minute, count_hour, count_day,
                       redis_ttl(store, _get_key(user_id, endpoint, window), t), t)

\* A pipeline that gives the minute key the hour's TTL and the hour key the
\* minute's.
increment_rate_limit_swapped_ttl(enabled, store, user_id, endpoint, t, incr_fails) ==
    IF ~enabled \/ incr_fails THEN store
    ELSE redis_incr_expire(
           redis_incr_expire(
             redis_incr_expire(store, _get_key(user_id, endpoint, "minute"), 3600, t),
             _get_key(user_id, endpoint, "hour"), 60, t),
           _get_key(user_id, endpoint, "day"), 86400, t)

\* A pipeline without MULTI/EXEC: when it raises, the commands sent before the
\* failure (the minute key's) have already been applied.
increment_rate_limit_partial(enabled, store, user_id, endpoint, t, incr_fails) ==
    IF ~enabled THEN store
    ELSE IF incr_fails
    THEN redis_incr_expire(store, _get_key(user_id, endpoint, "minute"), 60, t)
    ELSE redis_incr_expire(
           redis_incr_expire(
             redis_incr_expire(store, _get_key(user_id, endpoint, "minute"), 60, t),
             _get_key(user_id, endpoint, "hour"), 3600, t),
           _get_key(user_id, endpoint, "day"), 86400, t)

\* increment_rate_limit: the store after the pipeline (INCR and EXPIRE of the
\* three keys in one MULTI/EXEC).  incr_fails: the pipeline raises, nothing is written.
increment_rate_limit(enabled, store, user_id, endpoint, t, incr_fails) ==
    IF ~enabled \/ incr_fails THEN store
    ELSE redis_incr_expire(
           redis_incr_expire(
             redis_incr_expire(store, _get_key(user_id, endpoint, "minute"), 60, t),
             _get_key(user_id, endpoint, "hour"), 3600, t),
           _get_key(user_id, endpoint, "day"), 86400, t)

\* str(user_id) of the model's users.
UserStr(u) == IF u = "u1" THEN <<"u", "1">> ELSE <<"u", "2">>

\* sub in s
Contains(s, sub) ==
    \E i \in 0..(Len(s) - Len(sub)) : SubSeq(s, i + 1, i + Len(sub)) = sub

\* KEYS ratelimit:*:{user_id}:* : the live keys the glob pattern matches, those
\* of the user and those whose endpoint holds ":{user_id}:".
redis_keys(store, user_id, t) ==
    {k \in DOMAIN store :
        /\ store[k].exp > t
        /\ \/ k[3] = user_id
           \/ Contains(k[4], <<":">> \o UserStr(user_id) \o <<":">>)}

\* DEL of keys (reset_user_rate_limits, line 189): the store without them and
\* the number of keys deleted, those that were still live.
redis_delete(store, keys, t) ==
    [store   |-> [k \in DOMAIN store \ keys |-> store[k]],
     deleted |-> Cardinality({k \in keys : redis_get(store, k, t) # 0})]

\* No reset_user_rate_limits call is in progress and none has been made.
NoReset == [user |-> "None", keys |-> {}, calls |-> 0]

(***************************************************************************)
(* core/security.py: access tokens, and the middleware's identity lookup   *)
(***************************************************************************)
\* decode_access_token: TRUE when it returns the payload, FALSE when it raises 401.
decode_access_token_ok(token, t) == jwt_decode_ok(token, t) /\ token.sub # ""

NoUser == "None"

\* request.state has no attribute user_id: nothing in the application assigns it.
NoStateUser == "unset"

\* _get_user_id_from_request: request.state.user_id when the attribute is set
\* (None when it is not the UUID of a user); otherwise the subject of the bearer
\* token, None when there is no usable bearer token.
_get_user_id_from_request(state_user_id, bearer, t) ==
    IF state_user_id # NoStateUser
    THEN IF state_user_id \in Users THEN state_user_id ELSE NoUser
    ELSE IF bearer # NoToken /\ decode_access_token_ok(bearer, t) /\ bearer.sub \in Users
    THEN bearer.sub ELSE NoUser

(***************************************************************************)
(* api/redis_rate_limit_middleware.py: dispatch                            *)
(***************************************************************************)
MaxRequests  == 3    \* requests that reach the rate limiter
MaxFaultRequests == 2 \* the same, in the runs with a failing counter store
MaxRateTicks == 2    \* clock advances of the rate limiter's runs
MaxResets    == 1    \* calls of reset_user_rate_limits

PatternApi    == <<"/", "a", "p", "i", "/", "*">>
PatternClones == <<"/", "a", "p", "i", "/", "c", "l", "o", "n", "e", "s", "/", "*", "/", "*">>

ConfigRow(plan, role, pattern, m, h, d) ==
    [plan |-> plan, role |-> role, endpoint_pattern |-> pattern,
     requests_per_minute |-> m, requests_per_hour |-> h, requests_per_day |-> d]

\* Contents of table rate_limit_configs the runs start from.
ConfigTables ==
    { <<>>,
      <<ConfigRow("free", "null", PatternApi, 2, 5, 5),
        ConfigRow("pro", "null", PatternApi, 3, 2, 4)>>,
      <<ConfigRow("free", "admin", PatternApi, 1, 1, 1),
        ConfigRow("free", "null", PatternClones, 1, 3, 3),
        ConfigRow("free", "null", PatternApi, 3, 4, 2),
        ConfigRow("pro", "null", PatternApi, 2, 3, 3)>> }

\* Bearer credentials a request may carry: access tokens minted at time 0, or none.
Bearers == {create_access_token(u, 0) : u \in Users} \cup {NoToken}

EmptyMap == [k \in {} |-> 0]

NoResult == RateResult(TRUE, 0, NoLimits, NULL, "None", "not_checked")

NoRequest == [user |-> NoUser, path |-> <<>>, endpoint |-> <<>>, limited |-> FALSE,
              forwarded |-> 0, res |-> NoResult, idx |-> 0, after_ttl |-> FALSE,
              prev_path |-> <<>>,
              read_fails |-> FALSE, incr_fails |-> FALSE,
              count_hour |-> 0, count_day |-> 0]

\* A request that has not arrived.  stage: its position in the stack, 0 once it
\* has left it; in_dispatch: RedisRateLimitMiddleware.dispatch is checking it;
\* pass: 2 for the pass started by the second call_next of lines 129-131;
\* logging: it is inside the try block of RequestLoggingMiddleware, which found
\* the record factory old_factory when it came in.
NoAppRequest == [path |-> <<>>, bearer |-> NoToken, space_q |-> NoSpace, stage |-> 0,
                 trace |-> <<>>, space_id |-> "unset", status |-> 0, raised |-> "None",
                 handler_fails |-> FALSE, handler_calls |-> 0,
                 in_try |-> FALSE, retried |-> FALSE, forwards |-> 0,
                 in_dispatch |-> FALSE, pass |-> 1,
                 logging |-> FALSE, old_factory |-> FALSE]

\* Server processes sharing the counter store.
Servers == {"s1", "s2", "s3"}

\* No server holds a request: pc is the round trip to the counter store that the
\* server's dispatch makes next, limits the plan's limits it has looked up, the
\* counts are those it has read so far, res the result of its check; idx and
\* prev_path: the request's number among those of its user and endpoint, and
\* the path of the one before it;
\* after_ttl: the request came after a minute-window rejection of its user and
\* endpoint, once the TTL reported with that rejection had elapsed.
NoCheck == [pc |-> "idle", user |-> NoUser, endpoint |-> <<>>, path |-> <<>>,
            limits |-> NoLimits, idx |-> 0, prev_path |-> <<>>,
            count_minute |-> 0, count_hour |-> 0, count_day |-> 0, window |-> "None",
            after_ttl |-> FALSE, read_fails |-> FALSE, res |-> NoResult]

NoInflight == [s \in Servers |-> NoCheck]

\* The history of a (user, endpoint) since its counters were last reset: requests
\* so far, those of them the check admitted and the times of their admission,
\* time of the first one, the expiry of the minute counter seen by the latest
\* minute-window rejection, and the raw path of the latest request; total: the
\* requests of all times.
LogOf(k) == IF k \in DOMAIN reqlog THEN reqlog[k]
            ELSE [n |-> 0, admitted |-> 0, admitted_at |-> <<>>, first |-> NULL,
                  rej_exp |-> NULL, path |-> <<>>, total |-> 0]

\* Requests that have reached the rate limiter so far.
RECURSIVE SumN(_)
SumN(S) == IF S = {} THEN 0
           ELSE LET k == CHOOSE j \in S : TRUE IN reqlog[k].total + SumN(S \ {k})

TotalRequests == SumN(DOMAIN reqlog)

\* The server process whose requests the runs with one server follow.
AppServer == "s1"

\* The request passes the middleware's early returns and reaches the rate limiter.
ReachesLimiter(path, bearer) ==
    /\ rl_enabled
    /\ IsApiPath[path]
    /\ path \notin bypass_routes
    /\ _get_user_id_from_request(NoStateUser, bearer, now) # NoUser

\* The entry of `last` for the request server s has held: res is the result of
\* its check, forwarded the number of call_next calls made for it.
Dispatched(r, res, forwarded, incr_fails) ==
    [user |-> r.user, path |-> r.path, endpoint |-> r.endpoint, limited |-> TRUE,
     forwarded |-> forwarded, res |-> res, idx |-> r.idx, after_ttl |-> r.after_ttl,
     prev_path |-> r.prev_path, read_fails |-> r.read_fails, incr_fails |-> incr_fails,
     count_hour |-> r.count_hour, count_day |-> r.count_day]

\* check_rate_limit, lines 138-143: a round trip to the counter store raises
\* redis.RedisError; the handler returns allowed = True with current_count 0
\* and dispatch goes on to the increment.
CheckFailed(r) ==
    [r EXCEPT !.pc = "checked", !.read_fails = TRUE, !.res = error_result("redis_error")]

\* The history of a (user, endpoint) after its check has admitted a request at t.
Admitted(log, t) ==
    [log EXCEPT !.admitted = @ + 1, !.admitted_at = Append(@, t)]

\* RedisRateLimitMiddleware.dispatch, lines 34-55, and the first statement of
\* check_rate_limit (line 83) on server s: the early returns forward the request
\* at once; for a request that reaches the limiter _get_plan_limits reads
\* users and rate_limit_configs (tables that no step of these runs writes).
\* plan_fails: a lookup of _get_plan_limits raises, and its handler (service
\* lines 54-60) returns the fallback limits, those of a table without a
\* matching row.
BeginDispatch(s, path, bearer, plan_fails, bound) ==
    LET user_id  == _get_user_id_from_request(NoStateUser, bearer, now)
        endpoint == EndpointOf[path]
        k        == <<user_id, endpoint>>
        log      == LogOf(k)
    IN /\ inflight[s].pc = "idle"
       /\ IF ~ReachesLimiter(path, bearer)
          THEN /\ last' = [NoRequest EXCEPT !.user = user_id, !.path = path,
                                            !.forwarded = 1]
               /\ UNCHANGED <<inflight, reqlog>>
          ELSE /\ TotalRequests < bound
               /\ inflight' = [inflight EXCEPT ![s] =
                     [NoCheck EXCEPT
                         !.pc = "get_minute", !.user = user_id, !.endpoint = endpoint,
                         !.path = path,
                         !.limits = _get_plan_limits(IF plan_fails THEN <<>>
                                                     ELSE rate_limit_configs,
                                                     user_id, endpoint),
                         !.idx = log.n + 1,
                         !.prev_path = log.path,
                         !.after_ttl = (log.rej_exp # NULL /\ now >= log.rej_exp)]]
               /\ reqlog' = [j \in DOMAIN reqlog \cup {k} |->
                               IF j = k
                               THEN [log EXCEPT !.n = log.n + 1,
                                                !.first = IF log.n = 0 THEN now
                                                          ELSE log.first,
                                                !.rej_exp = NULL,
                                                !.path = path,
                                                !.total = log.total + 1]
                               ELSE reqlog[j]]
               /\ last' = NoRequest
       /\ UNCHANGED <<now, ticks, envVars, tokenVars, rbacVars, redis, rl_enabled,
                      rate_limit_configs>>

\* check_rate_limit, line 89: server s reads the minute counter.  fails: the
\* round trip raises.
DispatchGetMinute(s, fails) ==
    LET r == inflight[s]
        k == <<r.user, r.endpoint>>
    IN /\ r.pc = "get_minute"
       /\ inflight' = [inflight EXCEPT ![s] =
                          IF fails THEN CheckFailed(r)
                          ELSE [r EXCEPT !.pc = "get_hour",
                                         !.count_minute =
                                             redis_get(redis,
                                                       _get_key(r.user, r.endpoint, "minute"),
                                                       now)]]
       /\ reqlog' = IF fails THEN [reqlog EXCEPT ![k] = Admitted(reqlog[k], now)]
                    ELSE reqlog
       /\ last' = NoRequest
       /\ UNCHANGED <<now, ticks, envVars, tokenVars, rbacVars, redis, rl_enabled,
                      rate_limit_configs, request>>

\* check_rate_limit, line 90: server s reads the hour counter.
DispatchGetHour(s, fails) ==
    LET r == inflight[s]
        k == <<r.user, r.endpoint>>
    IN /\ r.pc = "get_hour"
       /\ inflight' = [inflight EXCEPT ![s] =
                          IF fails THEN CheckFailed(r)
                          ELSE [r EXCEPT !.pc = "get_day",
                                         !.count_hour =
                                             redis_get(redis,
                                                       _get_key(r.user, r.endpoint, "hour"),
                                                       now)]]
       /\ reqlog' = IF fails THEN [reqlog EXCEPT ![k] = Admitted(reqlog[k], now)]
                    ELSE reqlog
       /\ last' = NoRequest
       /\ UNCHANGED <<now, ticks, envVars, tokenVars, rbacVars, redis, rl_enabled,
                      rate_limit_configs, request>>

\* check_rate_limit, lines 91-136: server s reads the day counter and compares
\* the three counts it holds with the limits; an admitted request (reset_at one
\* minute from now, line 133) waits for its increment, a violated window for
\* the read of its TTL.
DispatchGetDay(s, fails) ==
    LET r  == inflight[s]
        k  == <<r.user, r.endpoint>>
        cd == redis_get(redis, _get_key(r.user, r.endpoint, "day"), now)
        w  == violated_window(r.limits, r.count_minute, r.count_hour, cd)
    IN /\ r.pc = "get_day"
       /\ inflight' = [inflight EXCEPT ![s] =
                          IF fails THEN CheckFailed(r)
                          ELSE IF w = "None"
                          THEN [r EXCEPT !.pc = "checked", !.count_day = cd,
                                         !.res = window_result(r.limits, w, r.count_minute,
                                                               r.count_hour, cd, 0, now)]
                          ELSE [r EXCEPT !.pc = "ttl", !.count_day = cd, !.window = w]]
       /\ reqlog' = IF fails \/ w = "None"
                    THEN [reqlog EXCEPT ![k] = Admitted(reqlog[k], now)]
                    ELSE reqlog
       /\ last' = NoRequest
       /\ UNCHANGED <<now, ticks, envVars, tokenVars, rbacVars, redis, rl_enabled,
                      rate_limit_configs, request>>

\* A rejection that goes on to increment_rate_limit all the same.
TtlRoundTrip_counts_rejected(s, fails) ==
    LET r   == inflight[s]
        k   == <<r.user, r.endpoint>>
        res == window_result(r.limits, r.window, r.count_minute, r.count_hour, r.count_day,
                             redis_ttl(redis, _get_key(r.user, r.endpoint, r.window), now),
                             now)
    IN /\ r.pc = "ttl"
       /\ IF fails
          THEN /\ inflight' = [inflight EXCEPT ![s] = CheckFailed(r)]
               /\ reqlog' = [reqlog EXCEPT ![k] = Admitted(reqlog[k], now)]
               /\ last' = NoRequest
               /\ UNCHANGED redis
          ELSE /\ inflight' = [inflight EXCEPT ![s] = NoCheck]
               /\ reqlog' = IF r.window = "minute"
                            THEN [reqlog EXCEPT ![k].rej_exp = res.reset_at]
                            ELSE reqlog
               /\ last' = Dispatched(r, res, 0, FALSE)
               /\ redis' = increment_rate_limit(rl_enabled, redis, r.user, r.endpoint, now,
                                                 FALSE)
       /\ UNCHANGED <<now, ticks, envVars, tokenVars, rbacVars, rl_enabled,
                      rate_limit_configs>>

\* check_rate_limit, lines 94, 107 or 120, and dispatch, lines 57-104: server s
\* reads the TTL of the window it found violated and returns the rejection
\* (reset_at = utcnow() + max(ttl, 0)); dispatch logs the violation and raises
\* HTTPException(429), which ends the request without an increment.  The
\* history keeps the reset_at of a minute-window rejection.
TtlRoundTrip(s, fails) ==
    LET r   == inflight[s]
        k   == <<r.user, r.endpoint>>
        res == window_result(r.limits, r.window, r.count_minute, r.count_hour, r.count_day,
                             redis_ttl(redis, _get_key(r.user, r.endpoint, r.window), now),
                             now)
    IN /\ r.pc = "ttl"
       /\ IF fails
          THEN /\ inflight' = [inflight EXCEPT ![s] = CheckFailed(r)]
               /\ reqlog' = [reqlog EXCEPT ![k] = Admitted(reqlog[k], now)]
               /\ last' = NoRequest
          ELSE /\ inflight' = [inflight EXCEPT ![s] = NoCheck]
               /\ reqlog' = IF r.window = "minute"
                            THEN [reqlog EXCEPT ![k].rej_exp = res.reset_at]
                            ELSE reqlog
               /\ last' = Dispatched(r, res, 0, FALSE)
       /\ UNCHANGED <<now, ticks, envVars, tokenVars, rbacVars, redis, rl_enabled,
                      rate_limit_configs>>

DispatchTtl(s, fails) ==
    /\ TtlRoundTrip(s, fails)
    /\ UNCHANGED request

\* dispatch, lines 107-113: server s runs the pipeline of increment_rate_limit
\* for the request its check admitted, then call_next.  fails: the pipeline
\* raises; increment_rate_limit's handler (lines 172-175) swallows the error.
PipelineRoundTrip(s, fails) ==
    LET r == inflight[s]
    IN /\ r.pc = "checked"
       /\ redis' = increment_rate_limit(rl_enabled, redis, r.user, r.endpoint, now, fails)
       /\ inflight' = [inflight EXCEPT ![s] = NoCheck]
       /\ last' = Dispatched(r, r.res, 1, fails)
       /\ UNCHANGED <<now, ticks, envVars, tokenVars, rbacVars, rl_enabled,
                      rate_limit_configs, reqlog>>

DispatchIncrement(s, fails) ==
    /\ PipelineRoundTrip(s, fails)
    /\ UNCHANGED request

RateClockSteps == {1, 59, 3600}

\* Request paths of the runs with resets or with a failing store: one that
\* reaches the limiter and one that the middleware lets through unchecked.
ProbePaths == {PathCloneA, PathHealth}

\* The wall clock moves on, between two requests or between two round trips of
\* a dispatch; keys whose TTL has run out are gone.
RateTick(d) ==
    /\ ticks < MaxRateTicks
    /\ now' = now + d
    /\ ticks' = ticks + 1
    /\ redis' = redis_purge(redis, now + d)
    /\ last' = NoRequest
    /\ UNCHANGED <<envVars, tokenVars, rbacVars, rl_enabled, rate_limit_configs, reqlog, inflight,
                   request>>

\* reset_user_rate_limits(u) is called while u has counters (no route of the
\* application calls it), lines 182-187: KEYS returns the keys that match the
\* pattern of u.  Without such a key the call returns 0 and changes nothing.
ResetUserRateLimits(u) ==
    /\ resetting.user = "None"
    /\ resetting.calls < MaxResets
    /\ rl_enabled
    /\ redis_keys(redis, u, now) # {}
    /\ resetting' = [user |-> u, keys |-> redis_keys(redis, u, now),
                     calls |-> resetting.calls + 1]
    /\ last' = NoRequest
    /\ UNCHANGED <<now, ticks, utc_offset, timestamps_aware, log_level, redis_client,
                   middleware_stack, record_factory, tokenVars, rbacVars, redis, rl_enabled,
                   rate_limit_configs, reqlog, inflight, request>>

\* reset_user_rate_limits, lines 188-191: DEL of the keys that KEYS returned, in
\* a round trip of its own.  The request history of the user starts afresh.
ResetDelete ==
    /\ resetting.user # "None"
    /\ redis' = redis_delete(redis, resetting.keys, now).store
    /\ reqlog' = [j \in DOMAIN reqlog |->
                    IF j[1] = resetting.user
                    THEN [n |-> 0, admitted |-> 0, admitted_at |-> <<>>, first |-> NULL,
                          rej_exp |-> NULL, path |-> <<>>, total |-> reqlog[j].total]
                    ELSE reqlog[j]]
    /\ resetting' = [resetting EXCEPT !.user = "None", !.keys = {}]
    /\ last' = NoRequest
    /\ UNCHANGED <<now, ticks, utc_offset, timestamps_aware, log_level, redis_client,
                   middleware_stack, record_factory, tokenVars, rbacVars, rl_enabled,
                   rate_limit_configs, inflight, request>>

\* A request arrives while the counter store works.
Request(path, bearer) ==
    /\ BeginDispatch(AppServer, path, bearer, FALSE, MaxRequests)
    /\ UNCHANGED request

\* What the ping of get_redis_client (redis_client.py line 36) meets: an answer,
\* a refused connection (redis.ConnectionError), or no answer within
\* socket_connect_timeout (redis.TimeoutError, which is not a ConnectionError).
PingOutcomes == {"PONG", "ConnectionError", "TimeoutError"}

\* get_redis_client, redis_client.py lines 30-42, called with _redis_client =
\* client: the value of _redis_client after the call, and whether the call
\* raises.  A client held already is returned without a ping; a new client is
\* assigned before the ping (line 34) and set back to None only in the handler
\* of redis.ConnectionError (lines 38-41).
get_redis_client(client, ping) ==
    IF client # "None" THEN [client |-> client, raises |-> FALSE]
    ELSE IF ping = "PONG" THEN [client |-> "Redis", raises |-> FALSE]
    ELSE IF ping = "ConnectionError" THEN [client |-> "None", raises |-> FALSE]
    ELSE [client |-> "Redis", raises |-> TRUE]

\* The first call of the application builds the middleware stack, which
\* constructs RedisRateLimitMiddleware and with it RedisRateLimitService
\* (middleware line 32, service lines 14-17: enabled = client is not None).
\* path: the request that makes the call, <<>> for the lifespan call of the
\* server's start; ping: what the ping meets.  When get_redis_client raises,
\* the stack stays unbuilt and the call ends in the exception: a request is not
\* forwarded.  A request whose call has built the stack goes on to dispatch.
BuildMiddlewareStack(path, ping) ==
    LET c == get_redis_client(redis_client, ping)
    IN /\ middleware_stack = "None"
       /\ redis_client' = c.client
       /\ middleware_stack' = IF c.raises THEN "None" ELSE "built"
       /\ rl_enabled' = (~c.raises /\ c.client # "None")
       /\ last' = IF c.raises THEN [NoRequest EXCEPT !.path = path] ELSE NoRequest
       /\ UNCHANGED <<now, ticks, utc_offset, timestamps_aware, log_level, resetting,
                      record_factory, tokenVars, rbacVars, redis, rate_limit_configs, reqlog,
                      inflight, request>>

\* close_redis, redis_client.py lines 45-53, which the lifespan of main.py
\* calls on shutdown (line 54): the module's client and pool are set back to
\* None.  The middleware stack that was built and the service it constructed,
\* with the client it was given, stay as they are.
CloseRedis ==
    /\ redis_client = "Redis"
    /\ redis_client' = "None"
    /\ last' = NoRequest
    /\ UNCHANGED <<now, ticks, utc_offset, timestamps_aware, log_level, middleware_stack,
                   resetting, record_factory, tokenVars, rbacVars, redis, rl_enabled,
                   rate_limit_configs, reqlog, inflight, request>>

\* A request arrives in a run whose counter store may fail.
RequestServed(path, bearer) ==
    /\ middleware_stack = "built"
    /\ BeginDispatch(AppServer, path, bearer, FALSE, MaxFaultRequests)
    /\ UNCHANGED request

\* A request reaches the rate limiter and the database fails on the lookup of
\* the plan's limits.
RequestPlanFails(path, bearer) ==
    /\ middleware_stack = "built"
    /\ ReachesLimiter(path, bearer)
    /\ BeginDispatch(AppServer, path, bearer, TRUE, MaxFaultRequests)
    /\ UNCHANGED request

(***************************************************************************)
(* dispatch on several server processes that share the counter store: the  *)
(* round trips of other servers come between those of one dispatch.        *)
(***************************************************************************)
MaxConcRequests == 4   \* requests that reach the rate limiter in these runs

ConcPaths == {PathCloneA}

\* The user whose requests run concurrently.
ConcUsers == {"u1"}

MaxConcTicks == 1      \* clock steps in these runs

\* The wall clock moves on by the length of the minute window.
ConcClockSteps == {60}

\* Server s takes a request that reaches the limiter.
DispatchCheck(s, path, bearer) ==
    /\ ReachesLimiter(path, bearer)
    /\ BeginDispatch(s, path, bearer, FALSE, MaxConcRequests)
    /\ UNCHANGED request

\* The wall clock moves on between the round trips of the servers.
ConcTick(d) ==
    /\ ticks < MaxConcTicks
    /\ RateTick(d)

(***************************************************************************)
(* api/deps.py: the bearer credential of a protected endpoint              *)
(***************************************************************************)
\* get_current_user_id: the user id (status 200) when decode_access_token returns
\* a payload with a subject, else 401.
get_current_user_id(token, t) ==
    IF decode_access_token_ok(token, t)
    THEN [status |-> 200, user |-> token.sub]
    ELSE [status |-> 401, user |-> NoUser]

\* A protected endpoint is requested with the bearer credential tk.
Authenticate(p, tk) ==
    /\ call[p].pc = "idle"
    /\ calls < MaxCalls
    /\ calls' = calls + 1
    /\ call' = [Forget(p) EXCEPT ![p] =
                  [Idle EXCEPT !.op = "auth", !.tok = tk,
                               !.res = IF get_current_user_id(tk, now).status = 200
                                       THEN "ok" ELSE "fail",
                               !.caller = get_current_user_id(tk, now).user,
                               !.seq = calls + 1]]
    /\ UNCHANGED <<now, ticks, envVars, refresh_tokens, token_blacklist, held, rotated, revoked_ok,
                   rbacVars, rateVars>>

(***************************************************************************)
(* main.py: the middleware stack and the route-level dependencies          *)
(***************************************************************************)
\* The app.add_middleware calls and the @app.middleware("http") decorator of
\* main.py, in the order in which the module runs them.
registered ==
    <<"CORSMiddleware", "RequestLoggingMiddleware", "WorkspaceContextMiddleware",
      "RedisRateLimitMiddleware", "TrustedHostMiddleware", "add_security_headers">>

\* app.add_middleware: the new middleware goes to the front of user_middleware
\* and so wraps the ones added before it.
add_middleware(user_middleware, cls) == <<cls>> \o user_middleware

RECURSIVE build_middleware_stack(_, _)
build_middleware_stack(calls_left, user_middleware) ==
    IF calls_left = <<>> THEN user_middleware
    ELSE build_middleware_stack(Tail(calls_left),
                                add_middleware(user_middleware, Head(calls_left)))

\* The stack a request goes through, outermost middleware first.
user_middleware == build_middleware_stack(registered, <<>>)

\* bypass_routes of WorkspaceContextMiddleware.dispatch
workspace_bypass_routes ==
    { PathHealth, <<"/", "a", "p", "i", "/", "a", "u", "t", "h", "/">>, <<"/", "a", "p", "i", "/", "a", "u", "t", "h", "-", "v", "2", "/">>, PathDocs, <<"/", "o", "p", "e", "n", "a", "p", "i", ".", "j", "s", "o", "n">>, <<"/", "r", "e", "d", "o", "c">> }

AppPaths == {PathCloneA, PathCloneNum, PathHealth, PathDocs}

WorkspaceBypassed ==
    [p \in AppPaths |-> \E r \in workspace_bypass_routes : StartsWith(p, r)]

\* Levels of settings.LOG_LEVEL: the one shipped in core/config.py, one that the
\* environment can set above the level of the request log lines, and one above
\* the level of the REQUEST_FAILED line as well.
LogLevels == {"INFO", "WARNING", "CRITICAL"}

\* Table clones: the user_id of the row whose id a request path names; the row
\* of PathCloneA belongs to u1, PathCloneNum names no row.
clone_owner(path) == IF path = PathCloneA THEN "u1" ELSE NoUser

\* The routes main.py includes (lines 165-199): GET /api/clones/{clone_id}
\* depends on verify_clone_ownership, which depends on get_current_user_id and
\* the HTTPBearer scheme; /docs is FastAPI's own page, without dependencies.
\* The health router is included without a prefix, so /api/health is no route
\* and the router answers it with its not_found handler.
route_stages(path) ==
    IF path = PathDocs THEN <<"handler">>
    ELSE IF path \in {PathCloneA, PathCloneNum}
    THEN <<"get_current_user_id", "verify_clone_ownership", "handler">>
    ELSE <<"not_found">>

app_stages(path) == user_middleware \o route_stages(path)

MaxAppRequests == 2   \* requests that arrive in the application's runs
MaxAppTicks == 1      \* clock steps in the application's runs

AppClockSteps == {60, 3600}

\* The requests of a run, in the order of their arrival.
AppSlots == 1..MaxAppRequests

NoAppRequests == [x \in AppSlots |-> NoAppRequest]

StageName(x) ==
    IF request[x].stage = 0 THEN "none" ELSE app_stages(request[x].path)[request[x].stage]

StagePos(path, name) == CHOOSE i \in 1..Len(app_stages(path)) : app_stages(path)[i] = name

\* The event loop of the server runs one coroutine at a time: between the early
\* returns of RedisRateLimitMiddleware.dispatch and its call_next there is no
\* await, so no stage of another request runs while a dispatch is under way.
LoopFree == inflight[AppServer].pc = "idle"

Advance(x) == [request[x] EXCEPT !.trace = Append(@, StageName(x)), !.stage = @ + 1]

\* The stage answers: st is the status the client receives.  The response
\* travels up the stack and leaves RequestLoggingMiddleware's try block.
Finish(x, st) ==
    [request[x] EXCEPT !.trace = Append(@, StageName(x)), !.stage = 0, !.status = st,
                       !.logging = FALSE]

\* An error raised below RequestLoggingMiddleware's call_next passes its handler
\* (api/middleware.py lines 57-68), which logs REQUEST_FAILED with request_id in
\* extra: when the logger is enabled for ERROR and the record factory installed
\* at that moment sets request_id, Logger.makeRecord raises KeyError in place
\* of the error.
request_failed(exc) ==
    IF log_level # "CRITICAL" /\ record_factory THEN "KeyError" ELSE exc

\* An exception leaves the stage of request x and travels up the middleware
\* stack, through RequestLoggingMiddleware's handler when the request is inside
\* its try block.  In RedisRateLimitMiddleware.dispatch the call_next of line
\* 113 sits inside the try block whose `except Exception` (lines 129-131) calls
\* call_next again.  The second call_next raises the error of the first one
\* again, and the error, like one that met no such handler, reaches
\* Starlette's ServerErrorMiddleware, which answers 500 and raises it to the
\* server; the pass that the second call_next has started downstream runs on
\* from WorkspaceContextMiddleware until it is cancelled.  An exception of
\* that second pass ends it.
Unwind(x, exc) ==
    LET r   == request[x]
        e   == IF r.logging THEN request_failed(exc) ELSE exc
        out == [r EXCEPT !.trace = Append(@, StageName(x)), !.logging = FALSE]
    IN IF r.pass = 2
       THEN [out EXCEPT !.stage = 0]
       ELSE IF r.in_try /\ e # "HTTPException"
       THEN [out EXCEPT !.status = 500, !.raised = e, !.retried = TRUE,
                        !.forwards = @ + 1, !.pass = 2,
                        !.stage = StagePos(r.path, "RedisRateLimitMiddleware") + 1]
       ELSE [out EXCEPT !.stage = 0, !.status = 500, !.raised = e]

\* Request x takes the step that makes its record rec.  When the step leaves
\* the try block of RequestLoggingMiddleware, the finally clause (lines 70-71)
\* puts back the record factory that the request found when it came in.
Leave(x, rec) ==
    /\ request' = [request EXCEPT ![x] = rec]
    /\ record_factory' = IF request[x].logging /\ ~rec.logging
                         THEN request[x].old_factory
                         ELSE record_factory

\* The requests of the runs, each a path, a bearer credential, a space_id query
\* parameter and whether the route handler raises an unhandled error: the
\* clone of u1 requested by its owner, by another user and without a
\* credential, a clone id that names no row, and the two paths that the
\* rate limiter lets through unchecked.
AppInputs ==
    LET t1 == create_access_token("u1", 0)
        t2 == create_access_token("u2", 0)
    IN { <<PathCloneA, t1, "w1", FALSE>>, <<PathCloneA, t1, NoSpace, FALSE>>,
         <<PathCloneA, t1, "w1", TRUE>>, <<PathCloneA, t2, "w1", FALSE>>,
         <<PathCloneA, NoToken, "w1", FALSE>>, <<PathCloneNum, t1, NoSpace, FALSE>>,
         <<PathHealth, NoToken, NoSpace, FALSE>>, <<PathDocs, NoToken, "w1", FALSE>> }

\* A request arrives.  It may arrive while the request before it is still in
\* the stack.
Arrive(x, path, bearer, q, hf) ==
    /\ LoopFree
    /\ request[x].path = <<>>
    /\ IF x = 1 THEN TRUE ELSE request[x - 1].path # <<>>
    /\ request' = [request EXCEPT ![x] =
                      [NoAppRequest EXCEPT !.path = path, !.bearer = bearer, !.space_q = q,
                                           !.stage = 1, !.handler_fails = hf]]
    /\ UNCHANGED <<now, ticks, envVars, tokenVars, rbacVars, redis, rl_enabled, rate_limit_configs,
                   reqlog, last, inflight>>

\* CORS, trusted hosts (every host is allowed), security headers: call_next.
PassThrough(x) ==
    /\ LoopFree
    /\ StageName(x) \in {"CORSMiddleware", "TrustedHostMiddleware", "add_security_headers"}
    /\ Leave(x, Advance(x))
    /\ UNCHANGED <<now, ticks, hostVars, tokenVars, rbacVars, redis, rl_enabled, rate_limit_configs,
                   reqlog, last, inflight>>

\* RequestLoggingMiddleware.dispatch, lines 20-42: the request keeps the record
\* factory of the process (line 30) and installs one that sets request_id on
\* every record (line 37).  The REQUEST_STARTED line of line 39 passes
\* request_id in extra as well; when the logger is enabled for INFO,
\* Logger.makeRecord raises KeyError there, before the try block and call_next,
\* and the factory stays installed.
RequestLogging(x) ==
    /\ LoopFree
    /\ StageName(x) = "RequestLoggingMiddleware"
    /\ record_factory' = TRUE
    /\ request' = [request EXCEPT ![x] =
                      IF log_level = "INFO"
                      THEN Unwind(x, "KeyError")
                      ELSE [Advance(x) EXCEPT !.logging = TRUE,
                                              !.old_factory = record_factory]]
    /\ UNCHANGED <<now, ticks, hostVars, tokenVars, rbacVars, redis, rl_enabled, rate_limit_configs,
                   reqlog, last, inflight>>

\* WorkspaceContextMiddleware.dispatch: sets request.state.space_id from the
\* query parameter unless the path is bypassed.
WorkspaceContext(x) ==
    /\ LoopFree
    /\ StageName(x) = "WorkspaceContextMiddleware"
    /\ Leave(x, [Advance(x) EXCEPT
                    !.space_id = IF WorkspaceBypassed[request[x].path] THEN @
                                 ELSE request[x].space_q])
    /\ UNCHANGED <<now, ticks, hostVars, tokenVars, rbacVars, redis, rl_enabled, rate_limit_configs,
                   reqlog, last, inflight>>

\* RedisRateLimitMiddleware.dispatch for request x, lines 34-55: the call_next
\* of an early return (lines 36, 40, 45, 50, outside the try block), or the
\* start of the check, whose round trips follow.
RateLimit(x) ==
    /\ StageName(x) = "RedisRateLimitMiddleware"
    /\ BeginDispatch(AppServer, request[x].path, request[x].bearer, FALSE, MaxAppRequests + 1)
    /\ request' = [request EXCEPT ![x] =
                      IF last'.forwarded = 1
                      THEN [Advance(x) EXCEPT !.forwards = @ + 1]
                      ELSE [request[x] EXCEPT !.in_dispatch = TRUE]]

\* The check of request x ends in the HTTPException(429) of lines 93-104, which
\* the handler of lines 126-127 raises again: it leaves the middleware stack as
\* an exception.
RateLimitRejected(x) ==
    /\ request[x].in_dispatch
    /\ TtlRoundTrip(AppServer, FALSE)
    /\ request' = [request EXCEPT ![x] =
                      [Unwind(x, "HTTPException") EXCEPT !.in_dispatch = FALSE]]

\* The increment of request x and the call_next of line 113, inside the try
\* block.
RateLimitForward(x) ==
    /\ request[x].in_dispatch
    /\ PipelineRoundTrip(AppServer, FALSE)
    /\ request' = [request EXCEPT ![x] =
                      [Advance(x) EXCEPT !.in_dispatch = FALSE, !.in_try = TRUE,
                                         !.forwards = @ + 1]]

\* get_current_user_id (deps.py, lines 16-58): HTTPBearer refuses a request
\* without credentials, with 403 or 401 according to the FastAPI release that is
\* installed; a token that cannot be decoded ends in 401.  The pass started by
\* the second call_next of a failed request is cancelled here, when the
\* dependencies of the route wait for the first time.
GetCurrentUserId(x) ==
    /\ LoopFree
    /\ StageName(x) = "get_current_user_id"
    /\ \E refused \in {401, 403} :
          Leave(x, IF request[x].pass = 2
                   THEN [request[x] EXCEPT !.trace = Append(@, StageName(x)), !.stage = 0,
                                           !.logging = FALSE]
                   ELSE IF request[x].bearer = NoToken THEN Finish(x, refused)
                   ELSE IF get_current_user_id(request[x].bearer, now).status = 200
                   THEN Advance(x)
                   ELSE Finish(x, 401))
    /\ UNCHANGED <<now, ticks, hostVars, tokenVars, rbacVars, redis, rl_enabled, rate_limit_configs,
                   reqlog, last, inflight>>

\* verify_clone_ownership (deps.py, lines 61-107): the clones row with the id of
\* the path and the user_id of the token, 404 when there is none.  According to
\* the release of the store's client, maybe_single().execute() answers a query
\* without a row by a result without data or by None, and result.data (line 96)
\* then raises AttributeError.
VerifyCloneOwnership(x) ==
    /\ LoopFree
    /\ StageName(x) = "verify_clone_ownership"
    /\ \E none_result \in BOOLEAN :
          Leave(x, IF clone_owner(request[x].path)
                         = get_current_user_id(request[x].bearer, now).user
                   THEN Advance(x)
                   ELSE IF none_result
                   THEN Unwind(x, "AttributeError")
                   ELSE Finish(x, 404))
    /\ UNCHANGED <<now, ticks, hostVars, tokenVars, rbacVars, redis, rl_enabled, rate_limit_configs,
                   reqlog, last, inflight>>

\* No route matches the path: the router's not_found answers 404.
NotFound(x) ==
    /\ LoopFree
    /\ StageName(x) = "not_found"
    /\ Leave(x, Finish(x, 404))
    /\ UNCHANGED <<now, ticks, hostVars, tokenVars, rbacVars, redis, rl_enabled, rate_limit_configs,
                   reqlog, last, inflight>>

\* The wall clock moves on while requests travel through the stack, between
\* two round trips of a dispatch, or between two requests: by the length of the
\* minute window, or past the expiry of the access tokens.
AppTick(d) ==
    /\ ticks < MaxAppTicks
    /\ RateTick(d)

\* The route handler runs.  An unhandled error travels back up the stack,
\* through RequestLoggingMiddleware's handler.
Handler(x) ==
    /\ LoopFree
    /\ StageName(x) = "handler"
    /\ Leave(x, IF ~request[x].handler_fails
                THEN [Finish(x, 200) EXCEPT !.handler_calls = @ + 1]
                ELSE [Unwind(x, "RuntimeError") EXCEPT !.handler_calls = @ + 1])
    /\ UNCHANGED <<now, ticks, hostVars, tokenVars, rbacVars, redis, rl_enabled, rate_limit_configs,
                   reqlog, last, inflight>>

(***************************************************************************)
(* Specifications                                                          *)
(***************************************************************************)
\* Token service: workers running login, refresh and revoke concurrently.  The
\* tables are empty; one client holds a token whose row is gone.
TokenInit ==
    /\ now = 0
    /\ ticks = 0
    /\ utc_offset \in UtcOffsets
    /\ timestamps_aware \in BOOLEAN
    /\ log_level = "INFO"
    /\ redis_client = "Redis"
    /\ middleware_stack = "built"
    /\ resetting = NoReset
    /\ record_factory = FALSE
    /\ refresh_tokens = <<>>
    /\ token_blacklist = <<>>
    /\ held = {PreIssued}
    /\ call = [p \in Procs |-> Idle]
    /\ rotated = {}
    /\ revoked_ok = {}
    /\ calls = 0
    /\ space_members = NoMembers
    /\ is_admin = [u \in Users |-> FALSE]
    /\ rbac = NoRbac
    /\ member_changes = 0
    /\ redis = EmptyMap
    /\ rl_enabled = TRUE
    /\ rate_limit_configs = <<>>
    /\ reqlog = EmptyMap
    /\ last = NoRequest
    /\ inflight = NoInflight
    /\ request = NoAppRequests

TokenNext ==
    \/ \E p \in Procs, u \in Users : Login(p, u)
    \/ \E p \in Procs, tk \in held : RefreshStart(p, tk)
    \/ \E p \in Procs : RefreshLookup(p)
    \/ \E p \in Procs : RefreshIssue(p)
    \/ \E p \in Procs : RefreshRotate(p)
    \/ \E p \in Procs, tk \in held : RevokeStart(p, tk)
    \/ \E p \in Procs : RevokeUpdate(p)
    \/ \E p \in Procs, u \in Users : RevokeAll(p, u)
    \/ CleanupExpiredTokens
    \/ \E d \in TokenClockSteps : TokenTick(d)

SpecToken == TokenInit /\ [][TokenNext]_vars

\* Sessions: login, refresh, the revoke route and logout of authenticated users.
SessionNext ==
    \/ \E p \in Procs, u \in Users : Login(p, u)
    \/ \E p \in Procs, tk \in held : RefreshStart(p, tk)
    \/ \E p \in Procs : RefreshLookup(p)
    \/ \E p \in Procs : RefreshIssue(p)
    \/ \E p \in Procs : RefreshRotate(p)
    \/ \E p \in Procs, a \in Users, tk \in held : RevokeByUser(p, a, tk)
    \/ \E p \in Procs : RevokeUpdate(p)
    \/ \E p \in Procs, u \in Users : RevokeAll(p, u)
    \/ CleanupExpiredTokens
    \/ \E d \in TokenClockSteps : TokenTick(d)

SpecSession == TokenInit /\ [][SessionNext]_vars

\* Protected endpoints requested with the credentials clients hold: access
\* tokens, and refresh tokens that are active, rotated or revoked by a logout.
AuthNext ==
    \/ \E p \in Procs, u \in Users : Login(p, u)
    \/ \E p \in Procs, tk \in held : RefreshStart(p, tk)
    \/ \E p \in Procs : RefreshLookup(p)
    \/ \E p \in Procs : RefreshIssue(p)
    \/ \E p \in Procs : RefreshRotate(p)
    \/ \E p \in Procs, u \in Users : RevokeAll(p, u)
    \/ \E p \in Procs, tk \in held \cup {create_access_token(u, 0) : u \in Users} :
          Authenticate(p, tk)
    \/ CleanupExpiredTokens
    \/ \E d \in TokenClockSteps : TokenTick(d)

SpecAuth == TokenInit /\ [][AuthNext]_vars

\* Token service with store calls that may raise: the blacklist lookup, the
\* insert of a blacklist row and the updates that revoke rows.  The server's
\* clock is set to UTC.
TokenFaultInit ==
    /\ now = 0
    /\ ticks = 0
    /\ utc_offset = 0
    /\ timestamps_aware \in BOOLEAN
    /\ log_level = "INFO"
    /\ redis_client = "Redis"
    /\ middleware_stack = "built"
    /\ resetting = NoReset
    /\ record_factory = FALSE
    /\ refresh_tokens = <<>>
    /\ token_blacklist = <<>>
    /\ held = {PreIssued}
    /\ call = [p \in Procs |-> Idle]
    /\ rotated = {}
    /\ revoked_ok = {}
    /\ calls = 0
    /\ space_members = NoMembers
    /\ is_admin = [u \in Users |-> FALSE]
    /\ rbac = NoRbac
    /\ member_changes = 0
    /\ redis = EmptyMap
    /\ rl_enabled = TRUE
    /\ rate_limit_configs = <<>>
    /\ reqlog = EmptyMap
    /\ last = NoRequest
    /\ inflight = NoInflight
    /\ request = NoAppRequests

TokenFaultNext ==
    \/ \E p \in Procs, u \in Users : Login(p, u)
    \/ \E p \in Procs, tk \in held : RefreshStart(p, tk)
    \/ \E p \in Procs, tk \in held : RefreshStartBlacklistDown(p, tk)
    \/ \E p \in Procs : RefreshLookup(p)
    \/ \E p \in Procs : RefreshIssue(p)
    \/ \E p \in Procs : RefreshRotate(p)
    \/ \E p \in Procs : RefreshRotateFails(p)
    \/ \E p \in Procs, tk \in held : RevokeStart(p, tk)
    \/ \E p \in Procs, tk \in held : RevokeStartInsertFails(p, tk)
    \/ \E p \in Procs : RevokeUpdate(p)
    \/ \E p \in Procs : RevokeUpdateFails(p)
    \/ \E p \in Procs, u \in Users : RevokeAll(p, u)
    \/ \E p \in Procs, u \in Users : RevokeAllFails(p, u)
    \/ CleanupExpiredTokens
    \/ \E d \in TokenClockSteps : TokenTick(d)

SpecTokenFault == TokenFaultInit /\ [][TokenFaultNext]_vars

\* RBAC: membership and admin flags drawn at the start, checks applied to them.
RbacInit ==
    /\ now = 0
    /\ ticks = 0
    /\ utc_offset = 0
    /\ timestamps_aware = FALSE
    /\ log_level = "INFO"
    /\ redis_client = "Redis"
    /\ middleware_stack = "built"
    /\ resetting = NoReset
    /\ record_factory = FALSE
    /\ refresh_tokens = <<>>
    /\ token_blacklist = <<>>
    /\ held = {PreIssued}
    /\ call = [p \in Procs |-> Idle]
    /\ rotated = {}
    /\ revoked_ok = {}
    /\ calls = 0
    /\ space_members \in MemberTables(Users)
    /\ is_admin \in [Users -> BOOLEAN]
    /\ rbac = NoRbac
    /\ member_changes = 0
    /\ redis = EmptyMap
    /\ rl_enabled = TRUE
    /\ rate_limit_configs = <<>>
    /\ reqlog = EmptyMap
    /\ last = NoRequest
    /\ inflight = NoInflight
    /\ request = NoAppRequests

SpecRbac == RbacInit /\ [][RbacNext]_vars

\* RBAC with store calls that may raise; the memberships of one user are drawn
\* at the start, the other user is a member of no workspace.
RbacFaultInit ==
    /\ now = 0
    /\ ticks = 0
    /\ utc_offset = 0
    /\ timestamps_aware = FALSE
    /\ log_level = "INFO"
    /\ redis_client = "Redis"
    /\ middleware_stack = "built"
    /\ resetting = NoReset
    /\ record_factory = FALSE
    /\ refresh_tokens = <<>>
    /\ token_blacklist = <<>>
    /\ held = {PreIssued}
    /\ call = [p \in Procs |-> Idle]
    /\ rotated = {}
    /\ revoked_ok = {}
    /\ calls = 0
    /\ space_members \in MemberTables(Users \ {"u2"})
    /\ is_admin \in [Users -> BOOLEAN]
    /\ rbac = NoRbac
    /\ member_changes = 0
    /\ redis = EmptyMap
    /\ rl_enabled = TRUE
    /\ rate_limit_configs = <<>>
    /\ reqlog = EmptyMap
    /\ last = NoRequest
    /\ inflight = NoInflight
    /\ request = NoAppRequests

SpecRbacFault == RbacFaultInit /\ [][RbacFaultNext]_vars

\* Rate limiter: sequential requests against a working counter store.
RateInit ==
    /\ now = 0
    /\ ticks = 0
    /\ utc_offset = 0
    /\ timestamps_aware = FALSE
    /\ log_level = "INFO"
    /\ redis_client = "Redis"
    /\ middleware_stack = "built"
    /\ resetting = NoReset
    /\ record_factory = FALSE
    /\ refresh_tokens = <<>>
    /\ token_blacklist = <<>>
    /\ held = {PreIssued}
    /\ call = [p \in Procs |-> Idle]
    /\ rotated = {}
    /\ revoked_ok = {}
    /\ calls = 0
    /\ space_members = NoMembers
    /\ is_admin = [u \in Users |-> FALSE]
    /\ rbac = NoRbac
    /\ member_changes = 0
    /\ redis = EmptyMap
    /\ rl_enabled = TRUE
    /\ rate_limit_configs \in ConfigTables
    /\ reqlog = EmptyMap
    /\ last = NoRequest
    /\ inflight = NoInflight
    /\ request = NoAppRequests

RateNext ==
    \/ \E path \in AppPaths, bearer \in Bearers : Request(path, bearer)
    \/ DispatchGetMinute(AppServer, FALSE)
    \/ DispatchGetHour(AppServer, FALSE)
    \/ DispatchGetDay(AppServer, FALSE)
    \/ DispatchTtl(AppServer, FALSE)
    \/ DispatchIncrement(AppServer, FALSE)
    \/ \E d \in RateClockSteps : RateTick(d)

SpecRate == RateInit /\ [][RateNext]_vars

\* Rate limiter with the counters of a user reset between requests, or between
\* the round trips of a request.

RateAdminNext ==
    \/ \E path \in ProbePaths, bearer \in Bearers : Request(path, bearer)
    \/ DispatchGetMinute(AppServer, FALSE)
    \/ DispatchGetHour(AppServer, FALSE)
    \/ DispatchGetDay(AppServer, FALSE)
    \/ DispatchTtl(AppServer, FALSE)
    \/ DispatchIncrement(AppServer, FALSE)
    \/ \E u \in Users : ResetUserRateLimits(u)
    \/ ResetDelete
    \/ \E d \in RateClockSteps : RateTick(d)

SpecRateAdmin == RateInit /\ [][RateAdminNext]_vars

\* Rate limiter with a counter store that may be unreachable at start-up
\* (get_redis_client returns None) or fail during a request.
RateFaultInit ==
    /\ now = 0
    /\ ticks = 0
    /\ utc_offset = 0
    /\ timestamps_aware = FALSE
    /\ log_level = "INFO"
    /\ redis_client = "None"
    /\ middleware_stack = "None"
    /\ resetting = NoReset
    /\ record_factory = FALSE
    /\ refresh_tokens = <<>>
    /\ token_blacklist = <<>>
    /\ held = {PreIssued}
    /\ call = [p \in Procs |-> Idle]
    /\ rotated = {}
    /\ revoked_ok = {}
    /\ calls = 0
    /\ space_members = NoMembers
    /\ is_admin = [u \in Users |-> FALSE]
    /\ rbac = NoRbac
    /\ member_changes = 0
    /\ redis = EmptyMap
    /\ rl_enabled = FALSE
    /\ rate_limit_configs \in ConfigTables
    /\ reqlog = EmptyMap
    /\ last = NoRequest
    /\ inflight = NoInflight
    /\ request = NoAppRequests

RateFaultNext ==
    \/ \E path \in ProbePaths \cup {<<>>}, ping \in PingOutcomes :
          BuildMiddlewareStack(path, ping)
    \/ CloseRedis
    \/ \E path \in ProbePaths, bearer \in Bearers : RequestServed(path, bearer)
    \/ \E path \in ProbePaths, bearer \in Bearers : RequestPlanFails(path, bearer)
    \/ \E fails \in BOOLEAN : DispatchGetMinute(AppServer, fails)
    \/ \E fails \in BOOLEAN : DispatchGetHour(AppServer, fails)
    \/ \E fails \in BOOLEAN : DispatchGetDay(AppServer, fails)
    \/ \E fails \in BOOLEAN : DispatchTtl(AppServer, fails)
    \/ \E fails \in BOOLEAN : DispatchIncrement(AppServer, fails)
    \/ \E d \in RateClockSteps : RateTick(d)

SpecRateFault == RateFaultInit /\ [][RateFaultNext]_vars

\* Rate limiter on three server processes sharing one counter store.
RateConcInit ==
    /\ now = 0
    /\ ticks = 0
    /\ utc_offset = 0
    /\ timestamps_aware = FALSE
    /\ log_level = "INFO"
    /\ redis_client = "Redis"
    /\ middleware_stack = "built"
    /\ resetting = NoReset
    /\ record_factory = FALSE
    /\ refresh_tokens = <<>>
    /\ token_blacklist = <<>>
    /\ held = {PreIssued}
    /\ call = [p \in Procs |-> Idle]
    /\ rotated = {}
    /\ revoked_ok = {}
    /\ calls = 0
    /\ space_members = NoMembers
    /\ is_admin = [u \in Users |-> FALSE]
    /\ rbac = NoRbac
    /\ member_changes = 0
    /\ redis = EmptyMap
    /\ rl_enabled = TRUE
    /\ rate_limit_configs \in ConfigTables \ {<<>>}
    /\ reqlog = EmptyMap
    /\ last = NoRequest
    /\ inflight = NoInflight
    /\ request = NoAppRequests

RateConcNext ==
    \/ \E s \in Servers, path \in ConcPaths, u \in ConcUsers :
          DispatchCheck(s, path, create_access_token(u, 0))
    \/ \E s \in Servers : DispatchGetMinute(s, FALSE)
    \/ \E s \in Servers : DispatchGetHour(s, FALSE)
    \/ \E s \in Servers : DispatchGetDay(s, FALSE)
    \/ \E s \in Servers : DispatchTtl(s, FALSE)
    \/ \E s \in Servers : DispatchIncrement(s, FALSE)
    \/ \E d \in ConcClockSteps : ConcTick(d)

SpecRateConc == RateConcInit /\ [][RateConcNext]_vars

\* The application: requests travelling through the middleware stack of main.py
\* to the route's dependencies and handler, with the shipped LOG_LEVEL or one
\* set by the environment.
AppInit ==
    /\ now = 0
    /\ ticks = 0
    /\ utc_offset = 0
    /\ timestamps_aware = FALSE
    /\ log_level \in LogLevels
    /\ redis_client = "Redis"
    /\ middleware_stack = "built"
    /\ resetting = NoReset
    /\ record_factory = FALSE
    /\ refresh_tokens = <<>>
    /\ token_blacklist = <<>>
    /\ held = {PreIssued}
    /\ call = [p \in Procs |-> Idle]
    /\ rotated = {}
    /\ revoked_ok = {}
    /\ calls = 0
    /\ space_members = NoMembers
    /\ is_admin = [u \in Users |-> FALSE]
    /\ rbac = NoRbac
    /\ member_changes = 0
    /\ redis = EmptyMap
    /\ rl_enabled = TRUE
    /\ rate_limit_configs \in ConfigTables \ {<<>>}
    /\ reqlog = EmptyMap
    /\ last = NoRequest
    /\ inflight = NoInflight
    /\ request = NoAppRequests

AppNext ==
    \/ \E x \in AppSlots, i \in AppInputs : Arrive(x, i[1], i[2], i[3], i[4])
    \/ \E x \in AppSlots : PassThrough(x)
    \/ \E x \in AppSlots : RequestLogging(x)
    \/ \E x \in AppSlots : WorkspaceContext(x)
    \/ \E x \in AppSlots : RateLimit(x)
    \/ DispatchGetMinute(AppServer, FALSE)
    \/ DispatchGetHour(AppServer, FALSE)
    \/ DispatchGetDay(AppServer, FALSE)
    \/ \E x \in AppSlots : RateLimitRejected(x)
    \/ \E x \in AppSlots : RateLimitForward(x)
    \/ \E x \in AppSlots : GetCurrentUserId(x)
    \/ \E x \in AppSlots : VerifyCloneOwnership(x)
    \/ \E x \in AppSlots : NotFound(x)
    \/ \E x \in AppSlots : Handler(x)
    \/ \E d \in AppClockSteps : AppTick(d)

SpecApp == AppInit /\ [][AppNext]_vars

Spec == SpecToken

(***************************************************************************)
(* Properties of the token service                                         *)
(***************************************************************************)
\* C1: once one refresh_access_token(R) has completed successfully, every call
\* refresh_access_token(R) started later fails and issues no token pair.
C1_SingleUseRotation ==
    \A p \in Procs :
        (call[p].op = "refresh" /\ call[p].after_use)
            => (call[p].res # "ok" /\ ~call[p].minted)

\* C2: of the concurrent refresh_access_token calls presenting the same refresh
\* token, at most one succeeds.
C2_AtMostOneConcurrentRefresh ==
    \A p, q \in Procs :
        (/\ p # q
         /\ call[p].op = "refresh" /\ call[q].op = "refresh"
         /\ call[p].tok = call[q].tok
         /\ q \in call[p].conc
         /\ call[p].res = "ok")
            => call[q].res # "ok"

\* C3: a refresh_access_token(R) call that starts while the blacklist holds an
\* entry for hash(R) does not succeed and issues no token pair, also when R's
\* row is active.
C3_BlacklistPrecedence ==
    \A p \in Procs :
        (call[p].op = "refresh" /\ call[p].bl_at_start)
            => (call[p].res # "ok" /\ ~call[p].minted)

\* C10: when revoke_token(T) returns True the blacklist holds an entry for hash(T)
\* and every refresh_tokens row with that hash has revoked_at set; every
\* refresh_access_token(T) started after that fails and issues no token pair.
C10_RevokeToken ==
    /\ [][\A p \in Procs :
            (call[p].op = "revoke" /\ call[p].res # "ok" /\ call'[p].op = "revoke"
                /\ call'[p].res = "ok")
            => LET h == hash_token(call'[p].tok)
               IN /\ \E i \in 1..Len(token_blacklist') : token_blacklist'[i].token_hash = h
                  /\ \A i \in 1..Len(refresh_tokens') :
                        refresh_tokens'[i].token_hash = h
                            => refresh_tokens'[i].revoked_at # NULL]_vars
    /\ [](\A p \in Procs :
            (call[p].op = "refresh" /\ call[p].after_revoke)
                => (call[p].res # "ok" /\ ~call[p].minted))

(***************************************************************************)
(* Properties of the RBAC check                                            *)
(***************************************************************************)
\* C4: check_permission(u, w, B).allowed is true exactly when u has a membership
\* row in w whose role level is at least level(B), with viewer 60 < editor 70 <
\* admin 80 < owner 90; a user without a membership row in w is denied.  The
\* membership is the one in the table when the check asks has_workspace_role.
C4_RoleHierarchy ==
    LET level == [viewer |-> 60, editor |-> 70, admin |-> 80, owner |-> 90, system |-> 100,
                  member |-> NULL]
        rows  == rbac.rows_at_rpc
    IN (rbac.kind = "check" /\ rbac.pc = "done" /\ rbac.space # NoSpace)
          => (rbac.allowed <=> \E i \in DOMAIN rows :
                                  level[rows[i].role] >= level[rbac.required])

\* C5: without a space_id, check_permission returns allowed = false and a
\* role-gated dependency rejects the request (400), whatever the user's roles and
\* platform-admin flag; the platform-admin dependency answers by the user's
\* is_platform_admin flag alone, whatever the space_id.
C5_WorkspaceScoping ==
    /\ (rbac.kind = "check" /\ rbac.space = NoSpace)
          => (rbac.pc = "done" /\ ~rbac.allowed /\ rbac.reason = <<"No workspace specified">>)
    /\ (rbac.kind = "dep" /\ ~rbac.platform /\ rbac.space = NoSpace)
          => (rbac.pc = "done" /\ rbac.status = 400)
    /\ (rbac.kind = "dep" /\ rbac.platform)
          => (rbac.pc = "done" /\ rbac.status = (IF is_admin[rbac.user] THEN 200 ELSE 403))

\* A platform admin who owns a workspace was rejected by a role gate for lack of
\* a space_id.
C5_Witness ==
    /\ rbac.kind = "dep"
    /\ ~rbac.platform
    /\ rbac.space = NoSpace
    /\ is_admin[rbac.user]
    /\ \E w \in Spaces : space_members[<<rbac.user, w>>] = <<MemberRow("owner")>>
    /\ rbac.status = 400

(***************************************************************************)
(* Properties of the rate limiter                                          *)
(***************************************************************************)
\* C6: with limit_per_minute = N and the hour and day limits not reached, of the
\* requests of one user to one normalized endpoint within 60 seconds of the
\* first, the first N are admitted and forwarded, and the (N+1)th is rejected
\* with window = minute and current_count = N.
C6_MinuteLimit ==
    LET N == last.res.limit_per_minute
        first == LogOf(<<last.user, last.endpoint>>).first
    IN (/\ last.limited
        /\ now - first < 60
        /\ last.count_hour < last.res.limit_per_hour
        /\ last.count_day < last.res.limit_per_day)
          => /\ last.idx <= N => (last.res.allowed /\ last.forwarded = 1)
             /\ last.idx = N + 1 =>
                   /\ ~last.res.allowed
                   /\ last.forwarded = 0
                   /\ last.res.window = "minute"
                   /\ last.res.current_count = N

\* With a limit of two or more per minute, the request after the last admitted
\* one was rejected for the minute window, the clock having moved in between.
C6_Witness ==
    /\ last.limited
    /\ last.res.limit_per_minute >= 2
    /\ last.idx = last.res.limit_per_minute + 1
    /\ now - LogOf(<<last.user, last.endpoint>>).first < 60
    /\ now > LogOf(<<last.user, last.endpoint>>).first
    /\ ~last.res.allowed
    /\ last.res.window = "minute"
    /\ last.res.current_count = last.res.limit_per_minute

\* Part of C7 that involves no state: paths that differ only in UUID or all-digit
\* parts have one normalized endpoint and one counter key per user and window.
C7_AlikeNormalizeSame ==
    \A p \in TabulatedPaths : \A q \in AlikeOf[p] :
        /\ EndpointOf[p] = EndpointOf[q]
        /\ \A u \in Users, w \in {"minute", "hour", "day"} :
              _get_key(u, EndpointOf[p], w) = _get_key(u, EndpointOf[q], w)

\* C7: request paths that differ only in UUID or all-digit parts normalize to the
\* same endpoint, hence to the same three counter keys of a user: the counters a
\* request to one of them increments are those a request to the other reads.
C7_SameEndpointCounters ==
    /\ C7_AlikeNormalizeSame
    /\ (last.limited /\ last.res.allowed) =>
          \A p \in AlikeOf[last.path], w \in {"minute", "hour", "day"} :
              redis_get(redis, _get_key(last.user, EndpointOf[p], w), now) >= 1
    /\ (/\ last.limited /\ last.res.allowed
        /\ last.prev_path # <<>>
        /\ now - LogOf(<<last.user, last.endpoint>>).first < 60)
          => last.res.current_count >= 1

\* A request to the numeric-id path was counted on the counter that the request
\* to the UUID path of the same shape had incremented before.
C7_Witness ==
    /\ last.limited
    /\ last.res.allowed
    /\ last.path = PathCloneNum
    /\ last.prev_path = PathCloneA
    /\ last.res.current_count = 1
    /\ redis_get(redis, _get_key(last.user, EndpointOf[PathCloneB], "minute"), now) = 2

\* C8: the request that follows a minute-window rejection of the same user and
\* endpoint, made once the TTL reported at the rejection has elapsed and with the
\* hour and day limits not reached, is admitted with current_count = 0, also
\* when other requests of that user and endpoint are in flight on other servers.
C8_RecoveryAfterTtl ==
    (/\ last.limited
     /\ last.after_ttl
     /\ last.count_hour < last.res.limit_per_hour
     /\ last.count_day < last.res.limit_per_day)
        => /\ last.res.allowed
           /\ last.res.current_count = 0

\* C9: with the counter store disabled or unreachable at start-up, or failing
\* during the counter reads, check_rate_limit returns allowed = true and the
\* request is forwarded; a request is rejected only on a counter that was read
\* at its limit, never on a failure of the store.
C9_FailOpen ==
    /\ (~rl_enabled /\ last.path # <<>>) =>
          /\ last.forwarded = 1
          /\ last.user # NoUser =>
                check_rate_limit(rl_enabled, redis, rate_limit_configs, last.user,
                                 EndpointOf[last.path], now, FALSE).allowed
    /\ last.read_fails => (last.res.allowed /\ last.forwarded = 1)
    /\ (last.path # <<>> /\ last.forwarded = 0) =>
          /\ rl_enabled
          /\ ~last.read_fails
          /\ ~last.res.allowed
          /\ \/ last.res.window = "minute"
                /\ last.res.current_count >= last.res.limit_per_minute
             \/ last.res.window = "hour"
                /\ last.res.current_count >= last.res.limit_per_hour
             \/ last.res.window = "day"
                /\ last.res.current_count >= last.res.limit_per_day

(***************************************************************************)
(* Properties of logout, the revoke route and expiry                       *)
(***************************************************************************)
\* C11: when revoke_all_user_tokens(u) returns n, every refresh_tokens row of u
\* has revoked_at set, n is the number of u's rows that were active before the
\* call, the blacklist is unchanged and the rows of other users are unchanged.
C11_RevokeAll ==
    [][\A p \in Procs :
         (calls' # calls /\ call'[p].op = "logout" /\ call'[p].seq = calls')
         => LET u == call'[p].caller
            IN /\ \A i \in 1..Len(refresh_tokens') :
                     refresh_tokens'[i].user_id = u => refresh_tokens'[i].revoked_at # NULL
               /\ call'[p].n = Cardinality({i \in 1..Len(refresh_tokens) :
                                    /\ refresh_tokens[i].user_id = u
                                    /\ refresh_tokens[i].revoked_at = NULL})
               /\ token_blacklist' = token_blacklist
               /\ Len(refresh_tokens') = Len(refresh_tokens)
               /\ \A i \in 1..Len(refresh_tokens) :
                     refresh_tokens[i].user_id # u => refresh_tokens'[i] = refresh_tokens[i]]_vars

\* A logout revoked two rows of its user while a row of the other user is active
\* and the blacklist is empty.
C11_Witness ==
    \E p \in Procs :
        /\ call[p].op = "logout"
        /\ call[p].n = 2
        /\ \A i \in 1..Len(refresh_tokens) :
              refresh_tokens[i].user_id = call[p].caller => refresh_tokens[i].revoked_at # NULL
        /\ \E i \in 1..Len(refresh_tokens) :
              /\ refresh_tokens[i].user_id # call[p].caller
              /\ refresh_tokens[i].revoked_at = NULL
        /\ token_blacklist = <<>>

\* C12: a call of the revoke route by user A blacklists or revokes only a token
\* whose subject is A; presented with a token of another user it changes nothing.
C12_RevokeOwnTokenOnly ==
    \A p \in Procs :
        (/\ call[p].op = "revoke"
         /\ call[p].caller # "None"
         /\ call[p].tok.sub # call[p].caller)
            => (call[p].pc = "idle" /\ call[p].res = "fail")

\* C13: refresh_access_token passes the stored-row test only for a row whose
\* expires_at is later than the current time; expires_at = now is unusable.
C13_RowExpiryInclusive ==
    [][\A p \in Procs :
         (call[p].pc = "r_lookup" /\ call'[p].pc = "r_issue")
         => \A i \in select_active(refresh_tokens, hash_token(call[p].tok)) :
               refresh_tokens[i].expires_at > now]_vars

(***************************************************************************)
(* Properties of the token service under store failures                    *)
(***************************************************************************)
\* C14: when the new pair has been persisted and the update that revokes the old
\* row fails, refresh_access_token still returns the new pair (the route gives 200).
C14_RevokeFailureNotSurfaced ==
    \A p \in Procs :
        (call[p].op = "refresh" /\ call[p].rotate_failed)
            => (call[p].res = "ok" /\ call[p].new \in held)

\* C15: when the blacklist lookup of refresh_access_token fails in the store, the
\* refresh is denied and no token pair is issued.
C15_BlacklistLookupFailClosed ==
    \A p \in Procs :
        (call[p].op = "refresh" /\ call[p].bl_failed)
            => (call[p].res # "ok" /\ ~call[p].minted)

(***************************************************************************)
(* Properties of the RBAC check under store failures                       *)
(***************************************************************************)
\* C16: when a store call made by check_permission or by is_platform_admin
\* fails, the outcome is a denial: allowed = false, respectively false.
C16_StoreFailureDenies ==
    /\ (rbac.kind \in {"check", "dep"} /\ rbac.fails \in PermissionStoreCalls)
          => (rbac.pc = "done" /\ ~rbac.allowed /\ rbac.status # 200)
    /\ (rbac.kind \in {"admin", "dep"} /\ rbac.fails = "admin")
          => (~rbac.allowed /\ rbac.status # 200)

\* The role lookup, the last store call of check_permission, failed for an owner
\* of the workspace asking for viewer rights, and the check denied.
C16_Witness ==
    /\ rbac.kind = "check"
    /\ rbac.pc = "done"
    /\ rbac.fails = "role"
    /\ rbac.required = "viewer"
    /\ rbac.rows_at_rpc = <<MemberRow("owner")>>
    /\ space_members[<<rbac.user, rbac.space>>] = <<MemberRow("owner")>>
    /\ ~rbac.allowed

\* C17: the RBAC dependency answers 400 when a workspace role is required and
\* space_id is absent, 403 when the role check denies, and 500 when a store call
\* inside check_permission failed.
C17_DependencyStatus ==
    (rbac.kind = "dep" /\ rbac.pc = "done" /\ ~rbac.platform /\ rbac.fails # "get_db") =>
        /\ rbac.space = NoSpace => rbac.status = 400
        /\ (rbac.space # NoSpace /\ rbac.fails = "none" /\ ~rbac.allowed)
              => rbac.status = 403
        /\ (rbac.space # NoSpace /\ rbac.fails \in PermissionStoreCalls)
              => rbac.status = 500

(***************************************************************************)
(* Properties of the rate limiter's windows                                *)
(***************************************************************************)
\* C18: check_rate_limit reports the first window, in the order minute, hour,
\* day, whose counter has reached its limit, with that counter as current_count;
\* when no window is violated it returns allowed = true with current_count equal
\* to the minute counter.
C18_WindowOrder ==
    \A u \in Users :
        LET e   == EndpointOf[PathCloneA]
            lim == _get_plan_limits(rate_limit_configs, u, e)
            cm  == redis_get(redis, _get_key(u, e, "minute"), now)
            ch  == redis_get(redis, _get_key(u, e, "hour"), now)
            cd  == redis_get(redis, _get_key(u, e, "day"), now)
            r   == check_rate_limit(rl_enabled, redis, rate_limit_configs, u, e, now, FALSE)
        IN /\ cm >= lim.per_minute =>
                 (~r.allowed /\ r.window = "minute" /\ r.current_count = cm)
           /\ (cm < lim.per_minute /\ ch >= lim.per_hour) =>
                 (~r.allowed /\ r.window = "hour" /\ r.current_count = ch)
           /\ (cm < lim.per_minute /\ ch < lim.per_hour /\ cd >= lim.per_day) =>
                 (~r.allowed /\ r.window = "day" /\ r.current_count = cd)
           /\ (cm < lim.per_minute /\ ch < lim.per_hour /\ cd < lim.per_day) =>
                 (r.allowed /\ r.window = "None" /\ r.current_count = cm)

\* The hour and the day counters of a user have both reached their limits, the
\* minute counter has not, and the check names the hour window.
C18_Witness ==
    \E u \in Users :
        LET e   == EndpointOf[PathCloneA]
            lim == _get_plan_limits(rate_limit_configs, u, e)
            r   == check_rate_limit(rl_enabled, redis, rate_limit_configs, u, e, now, FALSE)
        IN /\ redis_get(redis, _get_key(u, e, "minute"), now) \in 1..(lim.per_minute - 1)
           /\ redis_get(redis, _get_key(u, e, "hour"), now) >= lim.per_hour
           /\ redis_get(redis, _get_key(u, e, "day"), now) >= lim.per_day
           /\ ~r.allowed
           /\ r.window = "hour"

\* C19: also when requests of one user to one endpoint run concurrently, the
\* stored counter of a window is at most its limit + 1 at the instant a request
\* is rejected for that window, and every stored counter is at most the number
\* of requests admitted for that (user, endpoint).
C19_CounterBound ==
    /\ (last.limited /\ ~last.res.allowed /\ last.res.window # "None") =>
          LET stored == redis_get(redis, _get_key(last.user, last.endpoint,
                                                  last.res.window), now)
              limit  == IF last.res.window = "minute" THEN last.res.limit_per_minute
                        ELSE IF last.res.window = "hour" THEN last.res.limit_per_hour
                        ELSE last.res.limit_per_day
          IN stored <= limit + 1
    /\ \A k \in DOMAIN reqlog :
          \A w \in {"minute", "hour", "day"} :
              redis_get(redis, _get_key(k[1], k[2], w), now) <= reqlog[k].admitted

(***************************************************************************)
(* Properties of the token pair                                            *)
(***************************************************************************)
\* C20: the access token minted by create_token_pair expires 30 minutes after
\* it is issued, so the expires_in returned with it (1800 seconds) equals the
\* lifetime encoded in the token's expiry claim.
C20_AccessTokenLifetime ==
    \A p \in Procs :
        call[p].pair # NoPair =>
            /\ call[p].pair.access_token.exp - call[p].at = 30 * 60
            /\ call[p].pair.expires_in = call[p].pair.access_token.exp - call[p].at

(***************************************************************************)
(* Properties of the bearer credential                                     *)
(***************************************************************************)
\* C21: a refresh token presented as the bearer credential of a protected
\* endpoint, whether its row is active or revoked, does not authenticate the
\* caller: the request is rejected with 401.
C21_RefreshTokenNotBearer ==
    \A p \in Procs :
        (call[p].op = "auth" /\ call[p].tok.typ = "refresh") => call[p].res = "fail"

(***************************************************************************)
(* Properties of the order of steps inside refresh_access_token            *)
(***************************************************************************)
\* C22: within one refresh_access_token call the blacklist check comes before
\* the stored-row lookup, the old row is marked revoked only after the new row
\* has been persisted, and a call that stops between issuing the new pair and
\* revoking the old row leaves the old token usable: neither the issue step nor
\* the stop takes a usable old token out of use.
C22_RefreshOrder ==
    [][\A p \in Procs :
          /\ (call[p].pc = "idle" /\ call'[p].pc = "r_lookup") =>
                \/ call'[p].bl_failed
                \/ ~is_token_blacklisted(token_blacklist, hash_token(call'[p].tok), now)
          /\ (call[p].pc = "r_rotate" /\ call'[p].pc = "idle" /\ call'[p].res = "ok") =>
                /\ call[p].minted
                /\ \E i \in 1..Len(refresh_tokens) :
                      refresh_tokens[i].token_hash = hash_token(call[p].new)
          /\ (\/ call[p].pc = "r_issue" /\ call'[p].pc = "r_rotate"
              \/ call[p].pc = "r_rotate" /\ call'[p].rotate_failed) =>
                (refresh_guards_pass(refresh_tokens, token_blacklist, call[p].tok, now,
                                     timestamps_aware)
                    => refresh_guards_pass(refresh_tokens', token_blacklist', call[p].tok,
                                           now', timestamps_aware'))
      ]_vars

(***************************************************************************)
(* Properties of the counters and their TTLs                               *)
(***************************************************************************)
\* C23: increment_rate_limit changes the three counters of a (user, endpoint)
\* as one step: whenever one of them is incremented the other two are
\* incremented in the same step, also when the pipeline fails; and every
\* counter key has a TTL of at least 1 and at most its window length (60, 3600,
\* 86400 seconds).
C23_AtomicIncrement ==
    [][/\ now' = now =>
            \A k \in DOMAIN redis' :
                (k \notin DOMAIN redis \/ redis'[k] # redis[k]) =>
                    \A w \in {"minute", "hour", "day"} :
                        LET j == <<k[1], w, k[3], k[4]>>
                        IN /\ j \in DOMAIN redis'
                           /\ redis'[j].val = redis_get(redis, j, now) + 1
       /\ \A k \in DOMAIN redis' :
             LET ttl == redis_ttl(redis', k, now')
                 len == IF k[2] = "minute" THEN 60
                        ELSE IF k[2] = "hour" THEN 3600 ELSE 86400
             IN ttl >= 1 /\ ttl <= len
      ]_vars

\* A request was admitted and counted after the minute counter of its user and
\* endpoint had run out while the hour and day counters still stood: the three
\* counters read 1, 2 and 2, each with its own TTL.
C23_Witness ==
    /\ last.limited
    /\ last.forwarded = 1
    /\ ~last.incr_fails
    /\ redis_get(redis, _get_key(last.user, last.endpoint, "minute"), now) = 1
    /\ redis_get(redis, _get_key(last.user, last.endpoint, "hour"), now) = 2
    /\ redis_get(redis, _get_key(last.user, last.endpoint, "day"), now) = 2
    /\ redis_ttl(redis, _get_key(last.user, last.endpoint, "minute"), now) = 60
    /\ redis_ttl(redis, _get_key(last.user, last.endpoint, "hour"), now) = 3600
    /\ redis_ttl(redis, _get_key(last.user, last.endpoint, "day"), now) = 86400

\* C24: a request rejected by the limiter changes no counter and no TTL: the
\* counter store after a rejected request is the store before it.
C24_RejectedLeavesCounters ==
    [][(inflight' # inflight /\ last'.limited /\ ~last'.res.allowed) => redis' = redis]_vars

\* A request was rejected at the minute limit one second or more after the
\* counter was written: the counter stands at the limit and its TTL has kept
\* running down.
C24_Witness ==
    /\ last.limited
    /\ ~last.res.allowed
    /\ last.forwarded = 0
    /\ last.res.window = "minute"
    /\ redis_get(redis, _get_key(last.user, last.endpoint, "minute"), now)
          = last.res.limit_per_minute
    /\ redis_ttl(redis, _get_key(last.user, last.endpoint, "minute"), now) \in 1..59

\* C25: a counter's TTL is set by the increment that creates it and later
\* increments do not push its expiry back, so a request is rejected for the
\* minute window only if at least limit_per_minute requests of that user and
\* endpoint were admitted in the preceding 60 seconds.
C25_TtlFromFirstIncrement ==
    [][/\ \A k \in DOMAIN redis :
             (/\ redis_get(redis, k, now') # 0
              /\ k \in DOMAIN redis'
              /\ redis'[k].val > redis[k].val) => redis'[k].exp = redis[k].exp
       /\ (inflight' # inflight /\ last'.limited /\ ~last'.res.allowed
              /\ last'.res.window = "minute") =>
             LET times == reqlog'[<<last'.user, last'.endpoint>>].admitted_at
             IN Cardinality({i \in 1..Len(times) : now' - times[i] <= 60})
                    >= last'.res.limit_per_minute
      ]_vars

(***************************************************************************)
(* Properties of the request pipeline                                      *)
(***************************************************************************)
\* C26: for every request, workspace-context resolution runs before the
\* rate-limit check and increment, which run before route-level
\* authentication, which runs before the RBAC dependency, which runs before
\* the handler, for the requests whose rate-limit check and increment ran.
\* (No route of main.py depends on an RBACDependency, so that stage is in no
\* request's trace.)
C26_PipelineOrder ==
    \A x \in AppSlots :
        LET order == <<"WorkspaceContextMiddleware", "RedisRateLimitMiddleware",
                       "get_current_user_id", "RBACDependency", "handler">>
            Ran(name) == \E i \in 1..Len(request[x].trace) : request[x].trace[i] = name
            FirstRun(name) == CHOOSE i \in 1..Len(request[x].trace) :
                                  /\ request[x].trace[i] = name
                                  /\ \A j \in 1..(i - 1) : request[x].trace[j] # name
        IN (/\ request[x].path \in AppPaths
            /\ IsApiPath[request[x].path]
            /\ request[x].in_try) =>
              \A a \in 1..Len(order), b \in 1..Len(order) :
                  (a < b /\ Ran(order[a]) /\ Ran(order[b])) =>
                      FirstRun(order[a]) < FirstRun(order[b])

\* C29: the rate-limit middleware forwards a request downstream (call_next) at
\* most once, whatever happens downstream: a handler that fails with an
\* unhandled error is not invoked a second time for the same request.
C29_ForwardedOnce ==
    \A x \in AppSlots :
        /\ request[x].forwards <= 1
        /\ request[x].handler_calls <= 1

(***************************************************************************)
(* Properties of token issue and of logout under concurrency               *)
(***************************************************************************)
\* C27: every create_token_pair call yields a refresh token different from
\* every refresh token issued before and adds one row for it, so the token
\* returned by a successful refresh_access_token(R) has an active row when the
\* call returns, also when R was issued to the same user in the same second.
C27_FreshTokenPerPair ==
    [][/\ Len(refresh_tokens') = Len(refresh_tokens) + 1 =>
             \A i \in 1..Len(refresh_tokens) :
                 refresh_tokens[i].token_hash
                     # refresh_tokens'[Len(refresh_tokens')].token_hash
       /\ \A p \in Procs :
             (call[p].pc = "r_rotate" /\ call'[p].pc = "idle" /\ call'[p].res = "ok") =>
                 select_active(refresh_tokens', hash_token(call'[p].new)) # {}
      ]_vars

\* C28: once a logout of user u has completed and the requests that were in
\* flight at that moment have finished, u has no active RefreshToken row unless
\* a login started after the logout: a refresh that ran concurrently with the
\* logout leaves no usable session behind.  (With two workers, the worker of
\* the logout and a worker still on the call it had in flight at the logout
\* leave no room for a later login.)
C28_LogoutEndsSessions ==
    \A p \in Procs, q \in Procs :
        (/\ call[p].op = "logout"
         /\ call[p].res = "ok"
         /\ q \in call[p].conc
         /\ call[q].pc = "idle") =>
            active_of_user(refresh_tokens, call[p].caller) = {}

(***************************************************************************)
(* Properties of the three counters of one (user, endpoint)                *)
(***************************************************************************)
\* C30: in every reachable state, for every (user, endpoint), the minute
\* counter is at most the hour counter, which is at most the day counter, an
\* absent or expired key counting as 0.
C30_CounterOrder ==
    \A k \in DOMAIN redis :
        LET m == redis_get(redis, <<k[1], "minute", k[3], k[4]>>, now)
            h == redis_get(redis, <<k[1], "hour", k[3], k[4]>>, now)
            d == redis_get(redis, <<k[1], "day", k[3], k[4]>>, now)
        IN m <= h /\ h <= d

\* A request was counted after the minute and hour counters of its user and
\* endpoint had expired while the day counter had not: the counters read 1, 1
\* and 2 or more.
C30_Witness ==
    /\ last.limited
    /\ last.forwarded = 1
    /\ redis_get(redis, _get_key(last.user, last.endpoint, "minute"), now) = 1
    /\ redis_get(redis, _get_key(last.user, last.endpoint, "hour"), now) = 1
    /\ redis_get(redis, _get_key(last.user, last.endpoint, "day"), now) >= 2

====
